---------------------------- MODULE Spec2Model ----------------------------
(***************************************************************************)
(* teamspeak_auth: the authorization service (auth_service.py) and the     *)
(* TeamSpeak ServerQuery client (ts_client.py).                            *)
(*                                                                         *)
(* Coroutines run on one asyncio event loop: the code between two awaits   *)
(* of a coroutine is one atomic step.  _fetch_authorized_clients runs in   *)
(* an executor thread, in parallel with the event loop: each of its        *)
(* ServerQuery calls and each access to ts_client.connection is a step of  *)
(* its own.                                                                *)
(***************************************************************************)
EXTENDS Integers, Sequences, FiniteSets, TLC

(***************************************************************************)
(* Bounds of the model.                                                    *)
(***************************************************************************)
\* time.time() returns a value of 1..MaxTime, never less than an earlier one.
MaxTime == 2
\* The number of callers of the manual refresh (POST /auth/refresh).
NumRefreshers == 1
\* The number of times stop() is called.
MaxStopCalls == 2

(***************************************************************************)
(* The state.                                                              *)
(***************************************************************************)
VARIABLES
    config,           \* the Config object
    authorized_ips,   \* AuthorizationService.authorized_ips, the snapshot
    last_update,      \* AuthorizationService.last_update
    connection,       \* TeamSpeakClient.connection: None, or the session, open or dead
    update_lock,      \* _update_lock: None, or the task that holds it
    lock_waiters,     \* _update_lock's queue of waiting tasks, first come first served
    background_task,  \* _background_task: None, or the task of _periodic_update
    cancel_requested, \* _background_task.cancel() was called and is not yet delivered
    pc,               \* where each coroutine is suspended
    thread,           \* the executor thread of each task's _fetch_authorized_clients
    stop_pc,          \* where stop() is
    stop_calls,       \* the number of calls of stop() so far
    providerUp,       \* the TeamSpeak server accepts and answers every call for now
    cycle_start,      \* per task: the snapshot and last_update its running cycle began with
    last_outcome,     \* how the last refresh cycle that ended did end: success or failure
    read_return       \* the last call of a read operation and what it returned

(***************************************************************************)
(* Python values.                                                          *)
(***************************************************************************)
\* None, as the value of a missing dict key or an unset attribute.
None == "None"

\* An int and a str: "6" and 6 are different values.
PyInt(n) == [t |-> "int", n |-> n]
PyStr(s) == [t |-> "str", s |-> s]

\* str(v): the decimal string of an int, a str unchanged.
str(v) == IF v.t = "int" THEN PyStr(ToString(v.n)) ELSE v

\* bool(v) of a str or None: false for None and for the empty string.
Truthy(v) == v # None /\ v # ""

\* The set of the elements of a list.
Range(seq) == {seq[k] : k \in 1..Len(seq)}

(***************************************************************************)
(* The ipaddress module, on the strings the model uses.  An address is its *)
(* version and its words (4 octets, or 8 groups of 16 bits); a string that *)
(* does not parse raises ValueError.                                       *)
(***************************************************************************)
ValueError == [ok |-> FALSE]

\* ipaddress.ip_address(s)
ip_address(s) ==
    CASE s = "10.0.0.5"     -> [ok |-> TRUE, version |-> 4, bits |-> 8, words |-> <<10, 0, 0, 5>>]
      [] s = "10.0.0.6"     -> [ok |-> TRUE, version |-> 4, bits |-> 8, words |-> <<10, 0, 0, 6>>]
      [] s = "10.1.2.3"     -> [ok |-> TRUE, version |-> 4, bits |-> 8, words |-> <<10, 1, 2, 3>>]
      [] s = "192.168.1.50" -> [ok |-> TRUE, version |-> 4, bits |-> 8, words |-> <<192, 168, 1, 50>>]
      [] s = "192.168.2.50" -> [ok |-> TRUE, version |-> 4, bits |-> 8, words |-> <<192, 168, 2, 50>>]
      [] s = "fd00::1"      -> [ok |-> TRUE, version |-> 6, bits |-> 16,
                                words |-> <<64768, 0, 0, 0, 0, 0, 0, 1>>]
      [] OTHER              -> ValueError

\* The address and the prefix length written in a network string.
ParseNetwork(s) ==
    CASE s = "192.168.1.0/24" -> [ok |-> TRUE, version |-> 4, bits |-> 8,
                                  words |-> <<192, 168, 1, 0>>, prefixlen |-> 24]
      [] s = "10.0.0.1/8"     -> [ok |-> TRUE, version |-> 4, bits |-> 8,
                                  words |-> <<10, 0, 0, 1>>, prefixlen |-> 8]
      [] s = "10.0.0.6/31"    -> [ok |-> TRUE, version |-> 4, bits |-> 8,
                                  words |-> <<10, 0, 0, 6>>, prefixlen |-> 31]
      [] s = "fd00::/8"       -> [ok |-> TRUE, version |-> 6, bits |-> 16,
                                  words |-> <<64768, 0, 0, 0, 0, 0, 0, 0>>, prefixlen |-> 8]
      [] OTHER                -> ValueError

\* 2^n
RECURSIVE Pow2(_)
Pow2(n) == IF n = 0 THEN 1 ELSE 2 * Pow2(n - 1)

\* words & netmask(prefixlen): the host bits cleared.
MaskWords(words, bits, prefixlen) ==
    [j \in 1..Len(words) |->
        LET before == (j - 1) * bits
            keep   == IF prefixlen <= before THEN 0
                      ELSE IF prefixlen >= before + bits THEN bits
                      ELSE prefixlen - before
            unit   == Pow2(bits - keep)
        IN  (words[j] \div unit) * unit]

\* ipaddress.ip_network(s, strict=False): host bits in s are masked away.
ip_network(s) ==
    LET p == ParseNetwork(s)
    IN  IF ~p.ok THEN ValueError
        ELSE [ok |-> TRUE, version |-> p.version, bits |-> p.bits, prefixlen |-> p.prefixlen,
              network_address |-> MaskWords(p.words, p.bits, p.prefixlen)]

\* ip in subnet: false across versions, else (ip & netmask) == network_address.
AddressInNetwork(ip, subnet) ==
    /\ ip.version = subnet.version
    /\ MaskWords(ip.words, ip.bits, subnet.prefixlen) = subnet.network_address


(***************************************************************************)
(* The configuration (config.py) the service reads.                        *)
(***************************************************************************)
\* config.required_server_groups: the default "6,9", parsed to a list of int.
RequiredGroupConfigs == {<<PyInt(6), PyInt(9)>>}

\* config.authorized_subnets: the parsed list of the comma-separated setting.
SubnetConfigs ==
    { <<>>,
      <<"192.168.1.0/24">>,
      <<"not-a-cidr", "10.0.0.1/8">>,
      <<"fd00::/8", "not-a-cidr", "10.0.0.6/31">> }

Configs ==
    [required_server_groups : RequiredGroupConfigs, authorized_subnets : SubnetConfigs]

\* The configuration the service runs with.
ServiceConfigs ==
    {c \in Configs : c.authorized_subnets = <<"not-a-cidr", "10.0.0.1/8">>}

\* The strings the read operations are asked about.
IPStrings ==
    {"10.0.0.5", "10.0.0.6", "10.1.2.3", "192.168.1.50", "192.168.2.50", "fd00::1",
     "not-an-ip", ""}

(***************************************************************************)
(* The TeamSpeak server: the clients it lists and the server groups of     *)
(* each client database id.                                                *)
(***************************************************************************)
Client(type, dbid, ip, nick, clid) ==
    [client_type |-> type, client_database_id |-> dbid, connection_client_ip |-> ip,
     client_nickname |-> nick, clid |-> clid]

Alice  == Client("0", "2", "10.0.0.5", "Alice", "11")
Bob    == Client("0", "3", "10.0.0.6", "Bob", "12")
Carol  == Client("0", "4", None, "Carol", "13")
Query  == Client("1", "1", "10.0.0.6", "serveradmin", "14")
Dave   == Client("0", None, "10.0.0.6", "Dave", "15")
Erin   == Client("0", "5", "10.0.0.5", None, "16")
Frank  == Client("0", "6", "10.0.0.5", "Frank", "17")
\* The nickname of Grace ends in a star, U+2605, a character outside Latin-1.
Grace  == Client("0", "7", "10.0.0.6", "Grace<U+2605>", "18")

\* The answers clientlist(ip=True) can give.
Rosters ==
    { <<Alice, Bob, Carol>>,
      <<Query, Alice, Erin, Frank>>,
      <<Dave, Grace>> }

\* The sgid column of servergroupsbyclientid(cldbid).
ServerGroupsOf(cldbid) ==
    CASE cldbid = "1" -> <<PyStr("2"), PyStr("6")>>
      [] cldbid = "2" -> <<PyStr("6")>>
      [] cldbid = "3" -> <<PyStr("3")>>
      [] cldbid = "4" -> <<PyStr("9")>>
      [] cldbid = "5" -> <<PyStr("7"), PyStr("9")>>
      [] cldbid = "6" -> <<PyStr("3")>>
      [] cldbid = "7" -> <<PyStr("8"), PyStr("6")>>
      [] OTHER        -> <<>>

(***************************************************************************)
(* The pure parts of ts_client.py.                                         *)
(***************************************************************************)
\* The empty dict.
EmptyDict == [k \in {} |-> None]

\* d[key] = value
DictSet(d, key, value) ==
    [k \in DOMAIN d \cup {key} |-> IF k = key THEN value ELSE d[k]]

\* Mutant: the list is returned as the server gave it, query clients included.
NonQueryClients_KeepsAll(clients) == clients

\* get_connected_clients: the listed clients that are no query clients.
RECURSIVE NonQueryClients(_)
NonQueryClients(clients) ==
    IF clients = <<>> THEN <<>>
    ELSE (IF Head(clients).client_type = "0" THEN <<Head(clients)>> ELSE <<>>)
         \o NonQueryClients(Tail(clients))

\* Mutant: the group ids are compared as they come, a str with an int.
HasRequiredGroup_NoStr(groups, required) ==
    \E g \in 1..Len(groups) : \E r \in 1..Len(required) : groups[g] = required[r]

\* any(str(group) in map(str, config.required_server_groups) for group in groups)
HasRequiredGroup(groups, required) ==
    \E g \in 1..Len(groups) : \E r \in 1..Len(required) : str(groups[g]) = str(required[r])

\* The dict entry get_authorized_clients builds for an authorized client.
ClientEntry(client, groups) ==
    [nickname |-> client.client_nickname, groups |-> groups, client_id |-> client.clid,
     client_db_id |-> client.client_database_id]

\* Whether a client reaches the group lookup: it has a database id and an address.
HasIdentity(client) ==
    Truthy(client.client_database_id) /\ Truthy(client.connection_client_ip)

\* Mutant: the first authorized client of an address keeps the entry.
AddIfAuthorized_FirstWins(authorized_clients, client, groups, required) ==
    IF /\ HasRequiredGroup(groups, required)
       /\ client.connection_client_ip \notin DOMAIN authorized_clients
    THEN DictSet(authorized_clients, client.connection_client_ip, ClientEntry(client, groups))
    ELSE authorized_clients

\* One iteration of the loop of get_authorized_clients, after the group lookup.
AddIfAuthorized(authorized_clients, client, groups, required) ==
    IF HasRequiredGroup(groups, required)
    THEN DictSet(authorized_clients, client.connection_client_ip, ClientEntry(client, groups))
    ELSE authorized_clients

(***************************************************************************)
(* The read operations of auth_service.py.                                 *)
(***************************************************************************)
\* Mutant: an entry that does not parse ends the loop with False.
RECURSIVE SubnetLoop_AbortsOnInvalid(_, _, _)
SubnetLoop_AbortsOnInvalid(ip, subnets, k) ==
    IF k > Len(subnets) THEN FALSE
    ELSE LET subnet == ip_network(subnets[k])
         IN  IF ~subnet.ok THEN FALSE
             ELSE IF AddressInNetwork(ip, subnet) THEN TRUE
             ELSE SubnetLoop_AbortsOnInvalid(ip, subnets, k + 1)

\* The for loop of _is_in_authorized_subnet, from entry k on: an entry that does
\* not parse is logged and skipped, the first containing subnet returns True.
RECURSIVE SubnetLoop(_, _, _)
SubnetLoop(ip, subnets, k) ==
    IF k > Len(subnets) THEN FALSE
    ELSE LET subnet == ip_network(subnets[k])
         IN  IF subnet.ok /\ AddressInNetwork(ip, subnet) THEN TRUE
             ELSE SubnetLoop(ip, subnets, k + 1)

\* Mutant: a string that does not parse as an address passes the subnet check.
is_in_authorized_subnet_NoParseCheck(ip_string, subnets) ==
    IF subnets = <<>> THEN FALSE
    ELSE LET ip == ip_address(ip_string)
         IN  IF ~ip.ok THEN TRUE ELSE SubnetLoop(ip, subnets, 1)

\* _is_in_authorized_subnet(ip_address)
is_in_authorized_subnet(ip_string, subnets) ==
    IF subnets = <<>> THEN FALSE
    ELSE LET ip == ip_address(ip_string)
         IN  IF ~ip.ok THEN FALSE ELSE SubnetLoop(ip, subnets, 1)

\* Mutant: the subnet check is left out.
is_authorized_SnapshotOnly(ip_string, snapshot, subnets) == ip_string \in DOMAIN snapshot

\* is_authorized(ip_address), on a snapshot and a subnet list
is_authorized(ip_string, snapshot, subnets) ==
    IF is_in_authorized_subnet(ip_string, subnets) THEN TRUE
    ELSE ip_string \in DOMAIN snapshot

\* Mutant: an ip of a configured subnet gets a made-up entry.
get_authorized_user_info_SubnetEntry(ip_string, snapshot) ==
    IF ip_string \in DOMAIN snapshot THEN snapshot[ip_string]
    ELSE IF \E k \in 1..Len(config.authorized_subnets) :
               LET ip     == ip_address(ip_string)
                   subnet == ip_network(config.authorized_subnets[k])
               IN  ip.ok /\ subnet.ok /\ AddressInNetwork(ip, subnet)
    THEN [nickname |-> "subnet"]
    ELSE None

\* get_authorized_user_info(ip_address): dict.get, None for a missing key.
get_authorized_user_info(ip_string, snapshot) ==
    IF ip_string \in DOMAIN snapshot THEN snapshot[ip_string] ELSE None

\* Mutant: the ips of the configured subnets are listed too.
get_all_authorized_ips_WithSubnets(snapshot) ==
    DOMAIN snapshot
    \cup {ip_string \in {"10.0.0.5", "10.0.0.6", "10.1.2.3"} :
            \E k \in 1..Len(config.authorized_subnets) :
               LET ip     == ip_address(ip_string)
                   subnet == ip_network(config.authorized_subnets[k])
               IN  ip.ok /\ subnet.ok /\ AddressInNetwork(ip, subnet)}

\* get_all_authorized_ips()
get_all_authorized_ips(snapshot) == DOMAIN snapshot

\* get_cache_age()
get_cache_age(time, lastUpdate) == time - lastUpdate

vars ==
    <<config, authorized_ips, last_update, connection, update_lock, lock_waiters,
      background_task, cancel_requested, pc, thread, stop_pc, stop_calls, providerUp,
      cycle_start, last_outcome, read_return>>

\* The coroutines that call update_authorized_users.
StartTask    == <<"start", 0>>
PeriodicTask == <<"_periodic_update", 0>>
Refreshers   == {<<"refresh_auth", n>> : n \in 1..NumRefreshers}
Tasks        == {StartTask, PeriodicTask} \cup Refreshers
\* None, where a task is expected.
NoTask       == <<"None", 0>>

\* A thread that runs no fetch.
IdleThread ==
    [pc |-> "idle", clients |-> <<>>, i |-> 0, authorized_clients |-> EmptyDict,
     lookups |-> <<>>, err |-> "none"]

\* A fetch that raised: its working data is gone, its error stays.
Raised(th, err) == [IdleThread EXCEPT !.pc = "raised", !.err = err]

\* What is remembered of a cycle for the properties: the snapshot and the
\* timestamp when it took the lock, and whether it had to wait for the lock.
\* No read operation was called yet.
NoRead == [op |-> "none"]

NoCycle == [active |-> FALSE, ips |-> EmptyDict, lu |-> 0, waited |-> FALSE]

Init ==
    /\ config \in ServiceConfigs
    /\ authorized_ips = EmptyDict
    /\ last_update = 0
    /\ connection = None
    /\ update_lock = NoTask
    /\ lock_waiters = <<>>
    /\ background_task = NoTask
    /\ cancel_requested = FALSE
    /\ pc = [t \in Tasks |->
                IF t = StartTask THEN "init" ELSE IF t = PeriodicTask THEN "none" ELSE "idle"]
    /\ thread = [t \in Tasks |-> IdleThread]
    /\ stop_pc = "idle"
    /\ stop_calls = 0
    /\ providerUp = FALSE
    /\ cycle_start = [t \in Tasks |-> NoCycle]
    /\ last_outcome = "none"
    /\ read_return = NoRead

(***************************************************************************)
(* update_authorized_users, on the event loop.                             *)
(***************************************************************************)
\* The event loop is free to run a coroutine or a request handler: it is not
\* inside the disconnect() of stop() (line 47), a plain call with no await.
EventLoopFree == stop_pc \notin {"disc_check", "disc_quit", "disc_clear"}

\* The lock is taken and the fetch is handed to the executor: lines 63-69.
BeginCycle(t) ==
    /\ update_lock' = t
    /\ thread' = [thread EXCEPT ![t] = [IdleThread EXCEPT !.pc = "check_conn"]]
    /\ pc' = [pc EXCEPT ![t] = "await_fetch"]
    /\ cycle_start' = [cycle_start EXCEPT
                          ![t] = [active |-> TRUE, ips |-> authorized_ips, lu |-> last_update,
                                  waited |-> pc[t] = "wait_lock"]]
    /\ UNCHANGED <<last_outcome, read_return>>

\* Mutant: no lock, every caller starts its fetch at once.
EnterUpdate_NoLock(t) == BeginCycle(t) /\ UNCHANGED lock_waiters

\* async with self._update_lock: taken at once when free and nobody waits, else
\* the task queues up.
EnterUpdate(t) ==
    IF update_lock = NoTask /\ lock_waiters = <<>>
    THEN BeginCycle(t) /\ UNCHANGED lock_waiters
    ELSE /\ lock_waiters' = Append(lock_waiters, t)
         /\ pc' = [pc EXCEPT ![t] = "wait_lock"]
         /\ UNCHANGED <<update_lock, thread, cycle_start, last_outcome, read_return>>

\* Mutant: start() creates the periodic task before its initial update.
Start_CreatesTaskFirst ==
    /\ EventLoopFree
    /\ pc[StartTask] = "init"
    /\ update_lock = NoTask
    /\ lock_waiters = <<>>
    /\ update_lock' = StartTask
    /\ thread' = [thread EXCEPT ![StartTask] = [IdleThread EXCEPT !.pc = "check_conn"]]
    /\ pc' = [pc EXCEPT ![StartTask] = "await_fetch", ![PeriodicTask] = "sleeping"]
    /\ background_task' = PeriodicTask
    /\ cycle_start' = [cycle_start EXCEPT
                          ![StartTask] = [active |-> TRUE, ips |-> authorized_ips,
                                          lu |-> last_update, waited |-> FALSE]]
    /\ UNCHANGED <<config, authorized_ips, last_update, connection, lock_waiters,
                   cancel_requested, stop_pc, stop_calls, providerUp, last_outcome,
                   read_return>>

\* start(): the initial update.
Start ==
    /\ EventLoopFree
    /\ pc[StartTask] = "init"
    /\ EnterUpdate(StartTask)
    /\ UNCHANGED <<config, authorized_ips, last_update, connection, background_task,
                   cancel_requested, stop_pc, stop_calls, providerUp>>

\* refresh_auth awaits update_authorized_users().
RefreshNow(t) ==
    /\ EventLoopFree
    /\ pc[t] = "idle"
    /\ EnterUpdate(t)
    /\ UNCHANGED <<config, authorized_ips, last_update, connection, background_task,
                   cancel_requested, stop_pc, stop_calls, providerUp>>

\* _periodic_update: asyncio.sleep(config.cache_ttl) is over, the update begins.
SleepDone ==
    /\ EventLoopFree
    /\ pc[PeriodicTask] = "sleeping"
    /\ ~cancel_requested
    /\ EnterUpdate(PeriodicTask)
    /\ UNCHANGED <<config, authorized_ips, last_update, connection, background_task,
                   cancel_requested, stop_pc, stop_calls, providerUp>>

\* Mutant: a waiter goes on while another task still holds the lock.
LockAcquired_Barging(t) ==
    /\ EventLoopFree
    /\ pc[t] = "wait_lock"
    /\ lock_waiters # <<>>
    /\ Head(lock_waiters) = t
    /\ ~(t = PeriodicTask /\ cancel_requested)
    /\ lock_waiters' = Tail(lock_waiters)
    /\ BeginCycle(t)
    /\ UNCHANGED <<config, authorized_ips, last_update, connection, background_task,
                   cancel_requested, stop_pc, stop_calls, providerUp>>

\* Mutant: a tick that had to wait is dropped when the lock comes free: the
\* periodic task goes back to its sleep without a fetch.
LockAcquired_TickSkipped(t) ==
    /\ EventLoopFree
    /\ pc[t] = "wait_lock"
    /\ update_lock = NoTask
    /\ lock_waiters # <<>>
    /\ Head(lock_waiters) = t
    /\ ~(t = PeriodicTask /\ cancel_requested)
    /\ lock_waiters' = Tail(lock_waiters)
    /\ IF t = PeriodicTask
       THEN /\ pc' = [pc EXCEPT ![t] = "sleeping"]
            /\ UNCHANGED <<update_lock, thread, cycle_start, last_outcome, read_return>>
       ELSE BeginCycle(t)
    /\ UNCHANGED <<config, authorized_ips, last_update, connection, background_task,
                   cancel_requested, stop_pc, stop_calls, providerUp>>

\* The first waiter gets the released lock.
LockAcquired(t) ==
    /\ EventLoopFree
    /\ pc[t] = "wait_lock"
    /\ update_lock = NoTask
    /\ lock_waiters # <<>>
    /\ Head(lock_waiters) = t
    /\ ~(t = PeriodicTask /\ cancel_requested)
    /\ lock_waiters' = Tail(lock_waiters)
    /\ BeginCycle(t)
    /\ UNCHANGED <<config, authorized_ips, last_update, connection, background_task,
                   cancel_requested, stop_pc, stop_calls, providerUp>>

\* time.time(): the clock never runs backwards, so a read is no earlier than
\* the read stored in last_update.
TimeReads(earlier) == {time \in 1..MaxTime : time >= earlier}

\* Mutant: the dict of the fetch is stored whether the fetch returned or raised.
SnapshotAfterCycle_ClobberOnFailure(fetch, current) == fetch.authorized_clients

\* Mutant: a failed fetch empties the snapshot.
SnapshotAfterCycle_DropOnFailure(fetch, current) ==
    IF fetch.pc = "returned" THEN fetch.authorized_clients ELSE EmptyDict

\* Mutant: the new entries are written into the dict that is already published.
SnapshotAfterCycle_UpdateInPlace(fetch, current) ==
    IF fetch.pc = "returned"
    THEN [ip \in DOMAIN current \cup DOMAIN fetch.authorized_clients |->
             IF ip \in DOMAIN fetch.authorized_clients
             THEN fetch.authorized_clients[ip] ELSE current[ip]]
    ELSE current

\* Mutant: the entries already published stay, the fetch only adds new keys.
SnapshotAfterCycle_CarriesOver(fetch, current) ==
    IF fetch.pc = "returned"
    THEN [ip \in DOMAIN current \cup DOMAIN fetch.authorized_clients |->
             IF ip \in DOMAIN current THEN current[ip] ELSE fetch.authorized_clients[ip]]
    ELSE current

\* Lines 67-72 and 78-79: the snapshot after the awaited fetch has ended.
SnapshotAfterCycle(fetch, current) ==
    IF fetch.pc = "returned" THEN fetch.authorized_clients ELSE current

\* Mutant: the time of a failed cycle is stored too.
LastUpdateAfterCycle_StampOnFailure(fetch, current, time) == time

\* Lines 72 and 78-79: last_update after the awaited fetch has ended.
LastUpdateAfterCycle(fetch, current, time) ==
    IF fetch.pc = "returned" THEN time ELSE current

\* Mutant: the error of a failed fetch ends the loop of _periodic_update.
AfterUpdate_FailureEndsLoop(t, fetch) ==
    IF t = StartTask THEN "done"
    ELSE IF t = PeriodicTask THEN (IF fetch.pc = "raised" THEN "done" ELSE "sleeping")
    ELSE "idle"

\* Mutant: the error of a failed fetch is raised to the caller of start().
AfterUpdate_StartRaises(t, fetch) ==
    IF t = StartTask THEN (IF fetch.pc = "raised" THEN "raised" ELSE "done")
    ELSE IF t = PeriodicTask THEN "sleeping"
    ELSE "idle"

\* Mutant: the error of a failed fetch is raised to refresh_auth, whose client
\* gets no answer from it.
AfterUpdate_RefreshRaises(t, fetch) ==
    IF t = StartTask THEN "done"
    ELSE IF t = PeriodicTask THEN "sleeping"
    ELSE IF fetch.pc = "raised" THEN "raised" ELSE "idle"

\* Where the caller of update_authorized_users goes on after a cycle whose fetch
\* ended as `fetch`: the error of a failed fetch is logged, not raised (lines
\* 78-79), so start() is over, _periodic_update sleeps again (lines 52-55) and
\* refresh_auth answers, whatever the fetch did.
AfterUpdate(t, fetch) ==
    IF t = StartTask THEN "done" ELSE IF t = PeriodicTask THEN "sleeping" ELSE "idle"

\* How the cycle ended: line 73 logs the update, line 79 logs the error.
OutcomeOf(fetch) == IF fetch.pc = "returned" THEN "success" ELSE "failure"

\* The awaited fetch has ended: publish or log, release the lock, return.
\* start() then creates the background task (line 33).
UpdateDone(t) ==
    /\ EventLoopFree
    /\ pc[t] = "await_fetch"
    /\ thread[t].pc \in {"returned", "raised"}
    /\ ~(t = PeriodicTask /\ cancel_requested)
    /\ authorized_ips' = SnapshotAfterCycle(thread[t], authorized_ips)
    /\ \E time \in TimeReads(last_update) :
          last_update' = LastUpdateAfterCycle(thread[t], last_update, time)
    /\ update_lock' = NoTask
    /\ thread' = [thread EXCEPT ![t] = IdleThread]
    /\ cycle_start' = [cycle_start EXCEPT ![t] = NoCycle]
    /\ last_outcome' = OutcomeOf(thread[t])
    /\ IF t = StartTask
       THEN /\ pc' = [pc EXCEPT ![StartTask] = AfterUpdate(t, thread[t]),
                                ![PeriodicTask] = "sleeping"]
            /\ background_task' = PeriodicTask
       ELSE /\ pc' = [pc EXCEPT ![t] = AfterUpdate(t, thread[t])]
            /\ UNCHANGED background_task
    /\ UNCHANGED <<config, connection, lock_waiters, cancel_requested, stop_pc, stop_calls,
                   providerUp, read_return>>

(***************************************************************************)
(* _fetch_authorized_clients, in the executor thread of task t.            *)
(***************************************************************************)
\* How a ServerQuery call on the session can end: a dead session fails every
\* call; a server that is up answers; otherwise the call may be answered, be
\* refused (the session stays usable) or break the session.
CallOutcomes ==
    IF connection = "dead" THEN {"transport_error"}
    ELSE IF providerUp THEN {"ok"}
    ELSE {"ok", "query_error", "transport_error"}

\* The session after a call that ended with outcome o.
SessionAfter(o) == IF o = "transport_error" THEN "dead" ELSE connection

\* How opening a session (TS3Connection(host, port)) can end.
ConnectOutcomes == IF providerUp THEN {"ok"} ELSE {"ok", "refused"}

\* The thread of task t goes on as th.  A fetch that ends when nobody awaits it
\* any more (its task was cancelled) leaves nothing behind: the result of a
\* cancelled future is dropped.
SetThread(t, th) ==
    thread' = [thread EXCEPT
                  ![t] = IF th.pc \in {"returned", "raised"} /\ pc[t] # "await_fetch"
                         THEN IdleThread
                         ELSE th]

\* Line 90: if not self.ts_client.connection
FetchCheckConnection(t) ==
    /\ thread[t].pc = "check_conn"
    /\ SetThread(t, [thread[t] EXCEPT !.pc = IF connection = None THEN "connect" ELSE "list"])
    /\ UNCHANGED <<config, authorized_ips, last_update, connection, update_lock, lock_waiters,
                   background_task, cancel_requested, pc, stop_pc, stop_calls,
                   providerUp, cycle_start, last_outcome, read_return>>

\* connect(), line 22: the session is opened and stored, or the error is
\* raised to the handler of _fetch_authorized_clients.
Connect(t) ==
    /\ thread[t].pc = "connect"
    /\ \E o \in ConnectOutcomes :
          IF o = "ok"
          THEN /\ connection' = "open"
               /\ SetThread(t, [thread[t] EXCEPT !.pc = "login"])
          ELSE /\ SetThread(t, [thread[t] EXCEPT !.pc = "disc_check", !.err = "connect"])
               /\ UNCHANGED connection
    /\ UNCHANGED <<config, authorized_ips, last_update, update_lock, lock_waiters,
                   background_task, cancel_requested, pc, stop_pc, stop_calls,
                   providerUp, cycle_start, last_outcome, read_return>>

\* connect(), lines 23-27: login and use on self.connection.  A connection set
\* to None meanwhile raises AttributeError, like any other failure.
Login(t) ==
    /\ thread[t].pc = "login"
    /\ IF connection = None
       THEN /\ SetThread(t, [thread[t] EXCEPT !.pc = "disc_check", !.err = "login"])
            /\ UNCHANGED connection
       ELSE \E o \in CallOutcomes :
               /\ connection' = SessionAfter(o)
               /\ SetThread(t, [thread[t] EXCEPT
                                   !.pc = IF o = "ok" THEN "list" ELSE "disc_check",
                                   !.err = IF o = "ok" THEN "none" ELSE "login"])
    /\ UNCHANGED <<config, authorized_ips, last_update, update_lock, lock_waiters,
                   background_task, cancel_requested, pc, stop_pc, stop_calls,
                   providerUp, cycle_start, last_outcome, read_return>>

\* The fetch after client i was dealt with: the loop goes on, or the dict is
\* returned (ts_client.py line 137, auth_service.py line 93).
NextClient(th) ==
    IF th.i >= Len(th.clients)
    THEN [th EXCEPT !.pc = "returned"]
    ELSE [th EXCEPT !.pc = "loop", !.i = th.i + 1]

\* get_connected_clients, lines 51-69, and the entry into the loop of
\* get_authorized_clients.
ListClients(t) ==
    /\ thread[t].pc = "list"
    /\ IF connection = None
       THEN /\ SetThread(t, [thread[t] EXCEPT !.pc = "disc_check", !.err = "list"])
            /\ UNCHANGED connection
       ELSE \E o \in CallOutcomes :
               /\ connection' = SessionAfter(o)
               /\ IF o = "ok"
                  THEN \E roster \in Rosters :
                          SetThread(t, NextClient([thread[t] EXCEPT
                                                      !.clients = NonQueryClients(roster)]))
                  ELSE SetThread(t, [thread[t] EXCEPT !.pc = "disc_check", !.err = "list"])
    /\ UNCHANGED <<config, authorized_ips, last_update, update_lock, lock_waiters,
                   background_task, cancel_requested, pc, stop_pc, stop_calls,
                   providerUp, cycle_start, last_outcome, read_return>>

\* Mutant: a lookup that failed is taken for membership of group 6.
GroupsOfLookup_FailureGrants(o, cldbid) ==
    IF o = "ok" THEN ServerGroupsOf(cldbid) ELSE <<PyStr("6")>>

\* get_client_server_groups, lines 85-89: the groups of the answer, the empty
\* list for a call that failed.
GroupsOfLookup(o, cldbid) == IF o = "ok" THEN ServerGroupsOf(cldbid) ELSE <<>>

\* What the loop did with a client: skipped it, or looked up these groups.
Skipped == [looked |-> FALSE, groups |-> <<>>]
Looked(groups) == [looked |-> TRUE, groups |-> groups]

\* One iteration of the loop of get_authorized_clients, lines 104-134: a client
\* without database id or address is skipped; else its groups are looked up
\* (RuntimeError when there is no connection, lines 81-82: not caught).
ProcessClient(t) ==
    /\ thread[t].pc = "loop"
    /\ LET th     == thread[t]
           client == th.clients[th.i]
       IN  IF ~HasIdentity(client)
           THEN /\ SetThread(t, NextClient([th EXCEPT !.lookups = Append(th.lookups, Skipped)]))
                /\ UNCHANGED connection
           ELSE IF connection = None
           THEN /\ SetThread(t, [th EXCEPT !.pc = "disc_check", !.err = "groups"])
                /\ UNCHANGED connection
           ELSE \E o \in CallOutcomes :
                   LET groups == GroupsOfLookup(o, client.client_database_id)
                   IN  /\ connection' = SessionAfter(o)
                       /\ SetThread(t, NextClient([th EXCEPT
                             !.authorized_clients =
                                 AddIfAuthorized(th.authorized_clients, client, groups,
                                                 config.required_server_groups),
                             !.lookups = Append(th.lookups, Looked(groups))]))
    /\ UNCHANGED <<config, authorized_ips, last_update, update_lock, lock_waiters,
                   background_task, cancel_requested, pc, stop_pc, stop_calls,
                   providerUp, cycle_start, last_outcome, read_return>>

(***************************************************************************)
(* disconnect(), ts_client.py lines 33-42, step by step.                   *)
(***************************************************************************)
\* Line 35: if self.connection
DisconnectNeeded == connection # None

\* Line 37: self.connection.quit() ends the session; with no connection the
\* AttributeError is caught (line 39).
ConnectionAfterQuit == IF connection = None THEN None ELSE "dead"

\* Mutant: the handler raises without the disconnect.
FetchDisconnectCheck_NoDisconnect(t) ==
    /\ thread[t].pc = "disc_check"
    /\ SetThread(t, Raised(thread[t], thread[t].err))
    /\ UNCHANGED <<config, authorized_ips, last_update, connection, update_lock, lock_waiters,
                   background_task, cancel_requested, pc, stop_pc, stop_calls,
                   providerUp, cycle_start, last_outcome, read_return>>

\* The handler of _fetch_authorized_clients, lines 94-98: disconnect and raise.
FetchDisconnectCheck(t) ==
    /\ thread[t].pc = "disc_check"
    /\ SetThread(t, IF DisconnectNeeded THEN [thread[t] EXCEPT !.pc = "disc_quit"]
                    ELSE Raised(thread[t], thread[t].err))
    /\ UNCHANGED <<config, authorized_ips, last_update, connection, update_lock, lock_waiters,
                   background_task, cancel_requested, pc, stop_pc, stop_calls,
                   providerUp, cycle_start, last_outcome, read_return>>

FetchDisconnectQuit(t) ==
    /\ thread[t].pc = "disc_quit"
    /\ connection' = ConnectionAfterQuit
    /\ SetThread(t, [thread[t] EXCEPT !.pc = "disc_clear"])
    /\ UNCHANGED <<config, authorized_ips, last_update, update_lock, lock_waiters,
                   background_task, cancel_requested, pc, stop_pc, stop_calls,
                   providerUp, cycle_start, last_outcome, read_return>>

\* Mutant: disconnect() forgets to clear self.connection.
FetchDisconnectClear_KeepsSession(t) ==
    /\ thread[t].pc = "disc_clear"
    /\ SetThread(t, Raised(thread[t], thread[t].err))
    /\ UNCHANGED <<config, authorized_ips, last_update, connection, update_lock, lock_waiters,
                   background_task, cancel_requested, pc, stop_pc, stop_calls,
                   providerUp, cycle_start, last_outcome, read_return>>

\* Line 42: finally self.connection = None
FetchDisconnectClear(t) ==
    /\ thread[t].pc = "disc_clear"
    /\ connection' = None
    /\ SetThread(t, Raised(thread[t], thread[t].err))
    /\ UNCHANGED <<config, authorized_ips, last_update, update_lock, lock_waiters,
                   background_task, cancel_requested, pc, stop_pc, stop_calls,
                   providerUp, cycle_start, last_outcome, read_return>>

(***************************************************************************)
(* stop(), on the event loop; its disconnect() runs beside the executor    *)
(* threads.                                                                *)
(***************************************************************************)
\* Mutant: stop() goes straight to the disconnect, the task is not cancelled.
StopCall_NoCancel ==
    /\ stop_pc = "idle"
    /\ stop_calls < MaxStopCalls
    /\ stop_calls' = stop_calls + 1
    /\ stop_pc' = "disc_check"
    /\ UNCHANGED <<config, authorized_ips, last_update, connection, update_lock, lock_waiters,
                   background_task, cancel_requested, pc, thread, providerUp, cycle_start,
                   last_outcome, read_return>>

\* Lines 40-43: the background task, if any, is cancelled and awaited; a task
\* that is over already is awaited at once.
StopCall ==
    /\ stop_pc = "idle"
    /\ stop_calls < MaxStopCalls
    /\ stop_calls' = stop_calls + 1
    /\ IF background_task # NoTask /\ pc[PeriodicTask] # "done"
       THEN /\ cancel_requested' = TRUE
            /\ stop_pc' = "await_task"
       ELSE /\ stop_pc' = "disc_check"
            /\ UNCHANGED cancel_requested
    /\ UNCHANGED <<config, authorized_ips, last_update, connection, update_lock, lock_waiters,
                   background_task, pc, thread, providerUp, cycle_start, last_outcome, read_return>>

\* Mutant: a cancelled cycle whose fetch has returned publishes its result
\* before it goes.
PeriodicCancelled_PublishesFinished ==
    /\ cancel_requested
    /\ pc[PeriodicTask] \in {"sleeping", "wait_lock", "await_fetch"}
    /\ cancel_requested' = FALSE
    /\ pc' = [pc EXCEPT ![PeriodicTask] = "done"]
    /\ update_lock' = IF pc[PeriodicTask] = "await_fetch" THEN NoTask ELSE update_lock
    /\ lock_waiters' = SelectSeq(lock_waiters, LAMBDA w : w # PeriodicTask)
    /\ cycle_start' = [cycle_start EXCEPT ![PeriodicTask] = NoCycle]
    /\ stop_pc' = "disc_check"
    /\ thread' = [thread EXCEPT
                     ![PeriodicTask] = IF @.pc \in {"returned", "raised"} THEN IdleThread ELSE @]
    /\ authorized_ips' = IF pc[PeriodicTask] = "await_fetch"
                         THEN SnapshotAfterCycle(thread[PeriodicTask], authorized_ips)
                         ELSE authorized_ips
    /\ UNCHANGED <<config, last_update, connection, background_task,
                   stop_calls, providerUp, last_outcome, read_return>>

\* Mutant: the cancelled cycle goes without releasing the lock.
PeriodicCancelled_KeepsLock ==
    /\ cancel_requested
    /\ pc[PeriodicTask] \in {"sleeping", "wait_lock", "await_fetch"}
    /\ cancel_requested' = FALSE
    /\ pc' = [pc EXCEPT ![PeriodicTask] = "done"]
    /\ lock_waiters' = SelectSeq(lock_waiters, LAMBDA w : w # PeriodicTask)
    /\ cycle_start' = [cycle_start EXCEPT ![PeriodicTask] = NoCycle]
    /\ stop_pc' = "disc_check"
    /\ thread' = [thread EXCEPT
                     ![PeriodicTask] = IF @.pc \in {"returned", "raised"} THEN IdleThread ELSE @]
    /\ UNCHANGED <<config, authorized_ips, last_update, connection, background_task,
                   update_lock, stop_calls, providerUp, last_outcome, read_return>>

\* CancelledError reaches _periodic_update where it is suspended (in the sleep,
\* in the wait for the lock, in the await of the fetch): the lock it holds is
\* released, the loop breaks (lines 56-57) and stop() goes on.  The fetch in the
\* executor thread is not interrupted.
PeriodicCancelled ==
    /\ cancel_requested
    /\ pc[PeriodicTask] \in {"sleeping", "wait_lock", "await_fetch"}
    /\ cancel_requested' = FALSE
    /\ pc' = [pc EXCEPT ![PeriodicTask] = "done"]
    /\ update_lock' = IF pc[PeriodicTask] = "await_fetch" THEN NoTask ELSE update_lock
    /\ lock_waiters' = SelectSeq(lock_waiters, LAMBDA w : w # PeriodicTask)
    /\ cycle_start' = [cycle_start EXCEPT ![PeriodicTask] = NoCycle]
    /\ stop_pc' = "disc_check"
    /\ thread' = [thread EXCEPT
                     ![PeriodicTask] = IF @.pc \in {"returned", "raised"} THEN IdleThread ELSE @]
    /\ UNCHANGED <<config, authorized_ips, last_update, connection, background_task,
                   stop_calls, providerUp, last_outcome, read_return>>

\* Line 47: self.ts_client.disconnect()
StopDisconnectCheck ==
    /\ stop_pc = "disc_check"
    /\ stop_pc' = IF DisconnectNeeded THEN "disc_quit" ELSE "idle"
    /\ UNCHANGED <<config, authorized_ips, last_update, connection, update_lock, lock_waiters,
                   background_task, cancel_requested, pc, thread, stop_calls,
                   providerUp, cycle_start, last_outcome, read_return>>

StopDisconnectQuit ==
    /\ stop_pc = "disc_quit"
    /\ connection' = ConnectionAfterQuit
    /\ stop_pc' = "disc_clear"
    /\ UNCHANGED <<config, authorized_ips, last_update, update_lock, lock_waiters,
                   background_task, cancel_requested, pc, thread, stop_calls,
                   providerUp, cycle_start, last_outcome, read_return>>

StopDisconnectClear ==
    /\ stop_pc = "disc_clear"
    /\ connection' = None
    /\ stop_pc' = "idle"
    /\ UNCHANGED <<config, authorized_ips, last_update, update_lock, lock_waiters,
                   background_task, cancel_requested, pc, thread, stop_calls,
                   providerUp, cycle_start, last_outcome, read_return>>

(***************************************************************************)
(* The environment: the TeamSpeak server.                                  *)
(***************************************************************************)
ProviderFails ==
    /\ providerUp
    /\ providerUp' = FALSE
    /\ UNCHANGED <<config, authorized_ips, last_update, connection, update_lock, lock_waiters,
                   background_task, cancel_requested, pc, thread, stop_pc, stop_calls,
                   cycle_start, last_outcome, read_return>>

ProviderRecovers ==
    /\ ~providerUp
    /\ providerUp' = TRUE
    /\ UNCHANGED <<config, authorized_ips, last_update, connection, update_lock, lock_waiters,
                   background_task, cancel_requested, pc, thread, stop_pc, stop_calls,
                   cycle_start, last_outcome, read_return>>

(***************************************************************************)
(* The specification.                                                      *)
(***************************************************************************)
Next ==
    \/ Start
    \/ \E t \in Refreshers : RefreshNow(t)
    \/ SleepDone
    \/ \E t \in Tasks : LockAcquired(t)
    \/ \E t \in Tasks : UpdateDone(t)
    \/ \E t \in Tasks : FetchCheckConnection(t)
    \/ \E t \in Tasks : Connect(t)
    \/ \E t \in Tasks : Login(t)
    \/ \E t \in Tasks : ListClients(t)
    \/ \E t \in Tasks : ProcessClient(t)
    \/ \E t \in Tasks : FetchDisconnectCheck(t)
    \/ \E t \in Tasks : FetchDisconnectQuit(t)
    \/ \E t \in Tasks : FetchDisconnectClear(t)
    \/ StopCall
    \/ PeriodicCancelled
    \/ StopDisconnectCheck
    \/ StopDisconnectQuit
    \/ StopDisconnectClear

\* Every behaviour of the service, with a server that promises nothing.
Spec == Init /\ [][Next]_vars

\* The service alone: start() and the periodic task, no manual refresh and no
\* stop(), under every configuration.  It reaches every snapshot a fetch can
\* build; the read operations are checked on its states.
QueryInit ==
    \E c \in Configs :
       /\ config = c
       /\ authorized_ips = EmptyDict
       /\ last_update = 0
       /\ connection = None
       /\ update_lock = NoTask
       /\ lock_waiters = <<>>
       /\ background_task = NoTask
       /\ cancel_requested = FALSE
       /\ pc = [t \in Tasks |->
                   IF t = StartTask THEN "init" ELSE IF t = PeriodicTask THEN "none" ELSE "idle"]
       /\ thread = [t \in Tasks |-> IdleThread]
       /\ stop_pc = "idle"
       /\ stop_calls = 0
       /\ providerUp = FALSE
       /\ cycle_start = [t \in Tasks |-> NoCycle]
       /\ last_outcome = "none"
       /\ read_return = NoRead

QueryNext ==
    \/ Start
    \/ SleepDone
    \/ \E t \in Tasks : UpdateDone(t)
    \/ \E t \in Tasks : FetchCheckConnection(t)
    \/ \E t \in Tasks : Connect(t)
    \/ \E t \in Tasks : Login(t)
    \/ \E t \in Tasks : ListClients(t)
    \/ \E t \in Tasks : ProcessClient(t)
    \/ \E t \in Tasks : FetchDisconnectCheck(t)
    \/ \E t \in Tasks : FetchDisconnectQuit(t)
    \/ \E t \in Tasks : FetchDisconnectClear(t)

QuerySpec == QueryInit /\ [][QueryNext]_vars

\* One step of the fetch in the executor thread of task t.
ThreadStep(t) ==
    \/ FetchCheckConnection(t)
    \/ Connect(t)
    \/ Login(t)
    \/ ListClients(t)
    \/ ProcessClient(t)
    \/ FetchDisconnectCheck(t)
    \/ FetchDisconnectQuit(t)
    \/ FetchDisconnectClear(t)

\* The running service, never stopped, with a server that goes down and comes
\* up again.
LiveNext ==
    \/ Start
    \/ \E t \in Refreshers : RefreshNow(t)
    \/ SleepDone
    \/ \E t \in Tasks : LockAcquired(t)
    \/ \E t \in Tasks : UpdateDone(t)
    \/ \E t \in Tasks : FetchCheckConnection(t)
    \/ \E t \in Tasks : Connect(t)
    \/ \E t \in Tasks : Login(t)
    \/ \E t \in Tasks : ListClients(t)
    \/ \E t \in Tasks : ProcessClient(t)
    \/ \E t \in Tasks : FetchDisconnectCheck(t)
    \/ \E t \in Tasks : FetchDisconnectQuit(t)
    \/ \E t \in Tasks : FetchDisconnectClear(t)
    \/ ProviderFails
    \/ ProviderRecovers

\* The event loop runs every coroutine that is ready (the sleep of cache_ttl
\* seconds ends, a released lock wakes its first waiter, an ended fetch resumes
\* its awaiter), and an executor thread runs its fetch to the end: every call
\* on the session returns or raises.  Nothing obliges a client to call
\* refresh_auth, or the server to come up.
LiveFairness ==
    /\ WF_vars(Start)
    /\ WF_vars(SleepDone)
    /\ \A t \in Tasks :
          /\ WF_vars(LockAcquired(t))
          /\ WF_vars(UpdateDone(t))
          /\ WF_vars(ThreadStep(t))

LiveSpec == Init /\ [][LiveNext]_vars /\ LiveFairness

(***************************************************************************)
(* The read operations, auth_service.py lines 100-185: plain methods with  *)
(* no await, each one step of the event loop.                              *)
(***************************************************************************)
\* A read operation runs when the event loop is free, and what it leaves alone:
\* everything but its return value.
ReadFrame ==
    /\ EventLoopFree
    /\ UNCHANGED <<config, authorized_ips, last_update, connection, update_lock,
                   lock_waiters, background_task, cancel_requested, pc, thread, stop_pc,
                   stop_calls, providerUp, cycle_start, last_outcome>>

\* The fetch of task t is executing in its executor thread.
FetchRunning(t) == thread[t].pc \notin {"idle", "returned", "raised"}

\* A refresh cycle holds the lock and its fetch is with the provider; a read
\* that returns now is noted as made during a refresh.
RefreshInFlight == update_lock # NoTask /\ FetchRunning(update_lock)

\* A returned value that may be None, made comparable: None, or the dict.
\* (v is None, told by the printed form: a dict and a str do not compare.)
Optional(v) ==
    IF ToString(v) = ToString(None) THEN [none |-> TRUE] ELSE [none |-> FALSE, value |-> v]

\* Mutant: the read takes the refresh lock, so it waits while a cycle holds it.
IsAuthorizedReturns_UnderLock(ip, result) ==
    /\ update_lock = NoTask
    /\ read_return' = [op |-> "is_authorized", ip |-> ip, authorized |-> result,
                       during_refresh |-> RefreshInFlight]
    /\ ReadFrame

\* is_authorized(ip_address) returns result to its caller.
IsAuthorizedReturns(ip, result) ==
    /\ read_return' = [op |-> "is_authorized", ip |-> ip, authorized |-> result,
                       during_refresh |-> RefreshInFlight]
    /\ ReadFrame

\* is_authorized(ip_address) is called and returns.
IsAuthorizedCall(ip) ==
    IsAuthorizedReturns(ip, is_authorized(ip, authorized_ips, config.authorized_subnets))

\* get_authorized_user_info(ip_address) is called and returns.
GetAuthorizedUserInfoCall(ip) ==
    /\ read_return' = [op |-> "get_authorized_user_info", ip |-> ip,
                       info |-> Optional(get_authorized_user_info(ip, authorized_ips)),
                       during_refresh |-> RefreshInFlight]
    /\ ReadFrame

\* Mutant: listing the ips drops the session of the provider.
GetAllAuthorizedIpsCall_Disconnects ==
    /\ EventLoopFree
    /\ read_return' = [op |-> "get_all_authorized_ips",
                       ips |-> get_all_authorized_ips(authorized_ips),
                       during_refresh |-> RefreshInFlight]
    /\ connection' = None
    /\ UNCHANGED <<config, authorized_ips, last_update, update_lock, lock_waiters,
                   background_task, cancel_requested, pc, thread, stop_pc, stop_calls,
                   providerUp, cycle_start, last_outcome>>

\* get_all_authorized_ips() is called and returns.
GetAllAuthorizedIpsCall ==
    /\ read_return' = [op |-> "get_all_authorized_ips",
                       ips |-> get_all_authorized_ips(authorized_ips),
                       during_refresh |-> RefreshInFlight]
    /\ ReadFrame

\* get_cache_age() is called and returns; time is what time.time() gave it.
GetCacheAgeCall ==
    /\ \E time \in TimeReads(last_update) :
          read_return' = [op |-> "get_cache_age", time |-> time,
                          age |-> get_cache_age(time, last_update),
                          during_refresh |-> RefreshInFlight]
    /\ ReadFrame

\* The service with its readers: start(), the periodic task, and the read
\* operations called at any moment, under every configuration.
ReadNext ==
    \/ Start
    \/ SleepDone
    \/ \E t \in Tasks : UpdateDone(t)
    \/ \E t \in Tasks : FetchCheckConnection(t)
    \/ \E t \in Tasks : Connect(t)
    \/ \E t \in Tasks : Login(t)
    \/ \E t \in Tasks : ListClients(t)
    \/ \E t \in Tasks : ProcessClient(t)
    \/ \E t \in Tasks : FetchDisconnectCheck(t)
    \/ \E t \in Tasks : FetchDisconnectQuit(t)
    \/ \E t \in Tasks : FetchDisconnectClear(t)
    \/ \E ip \in IPStrings : IsAuthorizedCall(ip)
    \/ \E ip \in IPStrings : GetAuthorizedUserInfoCall(ip)
    \/ GetAllAuthorizedIpsCall
    \/ GetCacheAgeCall

\* The configurations of the service with its readers: no subnet, and a list
\* of an entry that does not parse and a subnet.
ReadConfigs ==
    {c \in Configs : c.authorized_subnets \in {<<>>, <<"not-a-cidr", "10.0.0.1/8">>}}

ReadInit ==
    \E c \in ReadConfigs :
       /\ config = c
       /\ authorized_ips = EmptyDict
       /\ last_update = 0
       /\ connection = None
       /\ update_lock = NoTask
       /\ lock_waiters = <<>>
       /\ background_task = NoTask
       /\ cancel_requested = FALSE
       /\ pc = [t \in Tasks |->
                   IF t = StartTask THEN "init" ELSE IF t = PeriodicTask THEN "none" ELSE "idle"]
       /\ thread = [t \in Tasks |-> IdleThread]
       /\ stop_pc = "idle"
       /\ stop_calls = 0
       /\ providerUp = FALSE
       /\ cycle_start = [t \in Tasks |-> NoCycle]
       /\ last_outcome = "none"
       /\ read_return = NoRead

ReadSpec == ReadInit /\ [][ReadNext]_vars

\* The service from start() to stop(), with a reader of the cache age.
AgeNext ==
    \/ Start
    \/ SleepDone
    \/ \E t \in Tasks : UpdateDone(t)
    \/ \E t \in Tasks : FetchCheckConnection(t)
    \/ \E t \in Tasks : Connect(t)
    \/ \E t \in Tasks : Login(t)
    \/ \E t \in Tasks : ListClients(t)
    \/ \E t \in Tasks : ProcessClient(t)
    \/ \E t \in Tasks : FetchDisconnectCheck(t)
    \/ \E t \in Tasks : FetchDisconnectQuit(t)
    \/ \E t \in Tasks : FetchDisconnectClear(t)
    \/ StopCall
    \/ PeriodicCancelled
    \/ StopDisconnectCheck
    \/ StopDisconnectQuit
    \/ StopDisconnectClear
    \/ GetCacheAgeCall

AgeSpec == Init /\ [][AgeNext]_vars

\* stop() runs to its end: the cancelled task takes its CancelledError, and
\* the synchronous disconnect() goes through.
StopFairness ==
    /\ WF_vars(PeriodicCancelled)
    /\ WF_vars(StopDisconnectCheck \/ StopDisconnectQuit \/ StopDisconnectClear)

\* The first call of stop().
StopOnce == stop_calls = 0 /\ StopCall

\* The service with refresh_auth calls and one call of stop().
FairNext ==
    \/ Start
    \/ \E t \in Refreshers : RefreshNow(t)
    \/ SleepDone
    \/ \E t \in Tasks : LockAcquired(t)
    \/ \E t \in Tasks : UpdateDone(t)
    \/ \E t \in Tasks : FetchCheckConnection(t)
    \/ \E t \in Tasks : Connect(t)
    \/ \E t \in Tasks : Login(t)
    \/ \E t \in Tasks : ListClients(t)
    \/ \E t \in Tasks : ProcessClient(t)
    \/ \E t \in Tasks : FetchDisconnectCheck(t)
    \/ \E t \in Tasks : FetchDisconnectQuit(t)
    \/ \E t \in Tasks : FetchDisconnectClear(t)
    \/ StopOnce
    \/ PeriodicCancelled
    \/ StopDisconnectCheck
    \/ StopDisconnectQuit
    \/ StopDisconnectClear

\* Its behaviours in which the event loop and the executor threads keep
\* running.
FairSpec == Init /\ [][FairNext]_vars /\ LiveFairness /\ StopFairness

\* refresh_auth is called before any call of stop().
RefreshBeforeStop(t) == stop_calls = 0 /\ RefreshNow(t)

\* The service whose clients ask for no refresh once stop() was called.
QuietNext ==
    \/ Start
    \/ \E t \in Refreshers : RefreshBeforeStop(t)
    \/ SleepDone
    \/ \E t \in Tasks : LockAcquired(t)
    \/ \E t \in Tasks : UpdateDone(t)
    \/ \E t \in Tasks : FetchCheckConnection(t)
    \/ \E t \in Tasks : Connect(t)
    \/ \E t \in Tasks : Login(t)
    \/ \E t \in Tasks : ListClients(t)
    \/ \E t \in Tasks : ProcessClient(t)
    \/ \E t \in Tasks : FetchDisconnectCheck(t)
    \/ \E t \in Tasks : FetchDisconnectQuit(t)
    \/ \E t \in Tasks : FetchDisconnectClear(t)
    \/ StopCall
    \/ PeriodicCancelled
    \/ StopDisconnectCheck
    \/ StopDisconnectQuit
    \/ StopDisconnectClear

QuietSpec == Init /\ [][QuietNext]_vars

(***************************************************************************)
(* The HTTP handlers of api/auth.py and api/ome.py: coroutines with no     *)
(* await, each one step of the event loop.                                 *)
(***************************************************************************)
\* dependencies.auth_service: None until startup_event, which builds the
\* service and calls start() in one step of the event loop.
auth_service == IF pc[StartTask] = "init" THEN None ELSE "AuthorizationService"

\* The X-Forwarded-For headers of the requests: none, empty, one address, lists.
ForwardedForHeaders ==
    {None, "", "10.0.0.5", "10.0.0.6, 10.1.2.3", " 192.168.1.50 ,10.0.0.5",
     "not-an-ip,10.0.0.5"}

\* request.client.host of the requests.
ClientHosts == {"10.0.0.5", "10.1.2.3"}

\* forwarded_for.split(",")[0].strip()
FirstForwarded(forwarded_for) ==
    CASE forwarded_for = "10.0.0.5"                -> "10.0.0.5"
      [] forwarded_for = "10.0.0.6, 10.1.2.3"      -> "10.0.0.6"
      [] forwarded_for = " 192.168.1.50 ,10.0.0.5" -> "192.168.1.50"
      [] forwarded_for = "not-an-ip,10.0.0.5"      -> "not-an-ip"
      [] OTHER                                     -> ""

\* Mutant: the header is not looked at, the peer of the connection decides.
ForwardAuthClientIp_PeerOnly(forwarded_for, host) == host

\* The client ip forward_auth decides on: the first forwarded address when the
\* header is there and not empty, else the peer of the connection.
ForwardAuthClientIp(forwarded_for, host) ==
    IF Truthy(forwarded_for) THEN FirstForwarded(forwarded_for) ELSE host

\* value.encode("latin-1"), which the response does with each header value: it
\* raises for None (no such method) and for a character outside Latin-1.
EncodesLatin1(value) == value # None /\ value # "Grace<U+2605>"

\* What a request gets when its handler raises status_code, or any other
\* exception (500).
HttpError(status_code) == [status_code |-> status_code]

\* Mutant: the handler is suspended between its two calls, and a cycle whose
\* fetch has returned publishes meanwhile.
SecondCallSnapshot_AfterPublication ==
    IF \E t \in Tasks : pc[t] = "await_fetch" /\ thread[t].pc = "returned"
    THEN thread[CHOOSE t \in Tasks :
                   pc[t] = "await_fetch" /\ thread[t].pc = "returned"].authorized_clients
    ELSE authorized_ips

\* The snapshot get_authorized_user_info reads in a handler that has just
\* called is_authorized: there is no await between the two calls, so it is
\* the same self.authorized_ips.
SecondCallSnapshot == authorized_ips

\* auth_service.get_authorized_user_info(client_ip), as a handler calls it
\* after is_authorized(client_ip) returned True.
HandlerUserInfo(client_ip) ==
    Optional(get_authorized_user_info(client_ip, SecondCallSnapshot))

\* Lines 52-56 of forward_auth: the nickname of an authorized request,
\* "localuser" unless there is user info, else user_info.get("nickname").
ForwardAuthNickname(client_ip) ==
    LET user_info == HandlerUserInfo(client_ip)
    IN  IF ~user_info.none THEN user_info.value.nickname ELSE "localuser"

\* The body check_auth and check_auth_by_ip share, api/auth.py lines 89-99 and
\* 112-122: the AuthResponse, with user info only for an authorized ip.
AuthResponse(ip_string) ==
    IF ~Truthy(auth_service) THEN HttpError(503)
    ELSE LET authorized == is_authorized(ip_string, authorized_ips, config.authorized_subnets)
         IN  [status_code |-> 200, authorized |-> authorized, ip_address |-> ip_string,
              user_info |-> IF authorized THEN HandlerUserInfo(ip_string)
                            ELSE Optional(None)]

\* GET /check is served: the ip is request.client.host.
CheckAuthCall ==
    /\ \E host \in ClientHosts :
          read_return' = [op |-> "check_auth", ip |-> host, response |-> AuthResponse(host)]
    /\ ReadFrame

\* The ip addresses asked for by path.
CheckedIps == {"10.0.0.6", "not-an-ip"}

\* GET /check/{ip_address} is served.
CheckAuthByIpCall ==
    /\ \E ip_string \in CheckedIps :
          read_return' = [op |-> "check_auth_by_ip", ip |-> ip_string,
                          response |-> AuthResponse(ip_string)]
    /\ ReadFrame

\* forward_auth(request): the response the client gets.
forward_auth(forwarded_for, host) ==
    IF ~Truthy(auth_service) THEN HttpError(503)
    ELSE LET client_ip == ForwardAuthClientIp(forwarded_for, host)
         IN  IF is_authorized(client_ip, authorized_ips, config.authorized_subnets)
             THEN LET nickname == ForwardAuthNickname(client_ip)
                  IN  IF EncodesLatin1(nickname)
                      THEN [status_code |-> 200, status |-> "authorized", ip |-> client_ip,
                            user |-> nickname, X_Auth_User |-> nickname]
                      ELSE HttpError(500)
             ELSE HttpError(403)

\* GET /auth is served.
ForwardAuthCall ==
    /\ \E forwarded_for \in ForwardedForHeaders, host \in ClientHosts :
          read_return' = [op |-> "forward_auth", forwarded_for |-> forwarded_for,
                          host |-> host, response |-> forward_auth(forwarded_for, host)]
    /\ ReadFrame

\* The payloads of the admission webhook: request.status, client.real_ip and
\* client.address.
OmeStatuses  == {"opening", "closing"}
OmeRealIps   == {None, "", "10.0.0.5"}
OmeAddresses == {"10.0.0.6", "10.1.2.3"}

\* OMEAdmissionResponse(...), a field not given being None.
OMEAdmissionResponse(allowed, lifetime, reason) ==
    [allowed |-> allowed, new_url |-> None, lifetime |-> lifetime, reason |-> reason]

\* Mutant: the peer address is used though a real ip is given.
OmeClientIp_AddressOnly(real_ip, address) == address

\* payload.client.real_ip or payload.client.address
OmeClientIp(real_ip, address) == IF Truthy(real_ip) THEN real_ip ELSE address

\* ome_admission_webhook(payload): the response the media server gets, the
\* ip is_authorized was called with (None when it was not called), and the
\* nickname it logs for an admitted client.
ome_admission_webhook(status, real_ip, address) ==
    IF ~Truthy(auth_service)
    THEN [status_code |-> 503, asked |-> None,
          body |-> [detail |-> "Authorization service not available"]]
    ELSE IF status = "closing" THEN [status_code |-> 200, asked |-> None, body |-> EmptyDict]
    ELSE LET client_ip == OmeClientIp(real_ip, address)
         IN  IF is_authorized(client_ip, authorized_ips, config.authorized_subnets)
             THEN [status_code |-> 200, asked |-> client_ip,
                   logged |-> LET user_info == HandlerUserInfo(client_ip)
                              IN  IF ~user_info.none THEN user_info.value.nickname
                                  ELSE "localuser",
                   body |-> OMEAdmissionResponse(TRUE, PyInt(0), None)]
             ELSE [status_code |-> 200, asked |-> client_ip,
                   body |-> OMEAdmissionResponse(FALSE, None, "IP address not authorized")]

\* POST /ome/admission is served.
OmeAdmissionWebhookCall ==
    /\ \E status \in OmeStatuses, real_ip \in OmeRealIps, address \in OmeAddresses :
          read_return' = [op |-> "ome_admission_webhook", status |-> status,
                          real_ip |-> real_ip, address |-> address,
                          response |-> ome_admission_webhook(status, real_ip, address)]
    /\ ReadFrame

\* The application: startup, the periodic task, and the endpoints asked at
\* any moment.
ApiNext ==
    \/ Start
    \/ SleepDone
    \/ \E t \in Tasks : UpdateDone(t)
    \/ \E t \in Tasks : FetchCheckConnection(t)
    \/ \E t \in Tasks : Connect(t)
    \/ \E t \in Tasks : Login(t)
    \/ \E t \in Tasks : ListClients(t)
    \/ \E t \in Tasks : ProcessClient(t)
    \/ \E t \in Tasks : FetchDisconnectCheck(t)
    \/ \E t \in Tasks : FetchDisconnectQuit(t)
    \/ \E t \in Tasks : FetchDisconnectClear(t)
    \/ ForwardAuthCall
    \/ CheckAuthCall
    \/ CheckAuthByIpCall
    \/ OmeAdmissionWebhookCall

ApiSpec == ReadInit /\ [][ApiNext]_vars

(***************************************************************************)
(* The properties.                                                         *)
(***************************************************************************)
\* This step is the end of the refresh cycle of task t: its awaited fetch has
\* ended and update_authorized_users returns to its caller.
CycleEnds(t) == pc[t] = "await_fetch" /\ pc'[t] = AfterUpdate(t, thread[t])

\* The fetch of task t has ended and its cycle is about to end, in success or
\* with the error err.
FetchSucceeded(t) == pc[t] = "await_fetch" /\ thread[t].pc = "returned"
FetchFailed(t) == pc[t] = "await_fetch" /\ thread[t].pc = "raised"
FetchFailedWith(t, err) == FetchFailed(t) /\ thread[t].err = err

\* C1: a refresh cycle that fails because connect() fails leaves authorized_ips
\* and last_update as they were when the cycle began, so is_authorized and
\* get_authorized_user_info answer for every ip as before the attempt.
C1_NoClobberOnConnectFailure ==
    [][\A t \in Tasks :
          (CycleEnds(t) /\ FetchFailedWith(t, "connect"))
          => /\ authorized_ips' = cycle_start[t].ips
             /\ last_update' = cycle_start[t].lu
             /\ \A ip \in IPStrings :
                   /\ is_authorized(ip, authorized_ips', config.authorized_subnets)
                        = is_authorized(ip, cycle_start[t].ips, config.authorized_subnets)
                   /\ get_authorized_user_info(ip, authorized_ips')
                        = get_authorized_user_info(ip, cycle_start[t].ips)]_vars

\* A cycle over a published, non-empty snapshot has failed in connect().
C1_Witness ==
    \E t \in Tasks :
       /\ FetchFailedWith(t, "connect")
       /\ cycle_start[t].active
       /\ cycle_start[t].ips # EmptyDict
       /\ cycle_start[t].lu > 0

AddressBit(words, bits, b) == (words[(b \div bits) + 1] \div Pow2(bits - 1 - (b % bits))) % 2

\* The ip string parses to an address of the network the subnet string writes:
\* same version, and the first prefixlen bits agree.
InWrittenNetwork(ip_string, subnet_string) ==
    LET a == ip_address(ip_string)
        n == ParseNetwork(subnet_string)
    IN  /\ a.ok
        /\ n.ok
        /\ a.version = n.version
        /\ \A b \in 0..(n.prefixlen - 1) :
              AddressBit(a.words, a.bits, b) = AddressBit(n.words, n.bits, b)

\* The ip string is contained in at least one parseable configured subnet.
InSomeConfiguredSubnet(ip_string) ==
    \E k \in 1..Len(config.authorized_subnets) :
       InWrittenNetwork(ip_string, config.authorized_subnets[k])

\* C3: in every state and for every ip string, is_authorized(ip) is true iff ip
\* is contained in at least one parseable configured subnet or ip is a key of
\* the snapshot.
C3_AuthorizedIffSubnetOrSnapshot ==
    \A ip \in IPStrings :
       is_authorized(ip, authorized_ips, config.authorized_subnets)
       <=> (InSomeConfiguredSubnet(ip) \/ ip \in DOMAIN authorized_ips)

\* A published snapshot under a subnet list with an unparseable entry: one ip is
\* authorized by a subnet alone, one by the snapshot alone, one by neither.
C3_Witness ==
    /\ authorized_ips # EmptyDict
    /\ "not-a-cidr" \in Range(config.authorized_subnets)
    /\ \E a, b, c \in IPStrings :
          /\ InSomeConfiguredSubnet(a) /\ a \notin DOMAIN authorized_ips
          /\ is_authorized(a, authorized_ips, config.authorized_subnets)
          /\ ~InSomeConfiguredSubnet(b) /\ b \in DOMAIN authorized_ips
          /\ is_authorized(b, authorized_ips, config.authorized_subnets)
          /\ ~InSomeConfiguredSubnet(c) /\ c \notin DOMAIN authorized_ips
          /\ ~is_authorized(c, authorized_ips, config.authorized_subnets)

\* The entity has an address and a database id, and one of the group ids its
\* lookup gave has the string form of a required group id.
EntityAuthorized(client, lookup, required) ==
    /\ client.connection_client_ip \notin {None, ""}
    /\ client.client_database_id \notin {None, ""}
    /\ \E g \in Range(lookup.groups) : \E r \in Range(required) : str(g) = str(r)

\* The listed entities (by their place in the list) of a fetch that are authorized.
AuthorizedEntities(fetch) ==
    {k \in 1..Len(fetch.clients) :
        EntityAuthorized(fetch.clients[k], fetch.lookups[k], config.required_server_groups)}

\* C4: after a successful refresh the keys of the snapshot are exactly the
\* addresses of the listed entities that have an address, a database id and a
\* group id whose string form is that of a required group id; each key maps to
\* the entry built from such an entity.
C4_SnapshotIsAuthorizedSubset ==
    [][\A t \in Tasks :
          (CycleEnds(t) /\ FetchSucceeded(t))
          => /\ DOMAIN authorized_ips'
                  = {thread[t].clients[k].connection_client_ip : k \in AuthorizedEntities(thread[t])}
             /\ \A ip \in DOMAIN authorized_ips' :
                   \E k \in AuthorizedEntities(thread[t]) :
                      /\ thread[t].clients[k].connection_client_ip = ip
                      /\ authorized_ips'[ip]
                           = ClientEntry(thread[t].clients[k], thread[t].lookups[k].groups)]_vars

\* A published snapshot holds the entry of Erin: of the entities that share her
\* address she was the last authorized one, and Frank after her was not.
C4_Witness ==
    /\ last_update > 0
    /\ "10.0.0.5" \in DOMAIN authorized_ips
    /\ authorized_ips["10.0.0.5"].client_db_id = "5"
    /\ "10.0.0.6" \notin DOMAIN authorized_ips

\* The cycle of task t is about to end with a session that broke after the
\* list was obtained: no call was made to stop(), so only the fetch of t has
\* used the session, and a fetch whose connect, login or list fails closes the
\* session before it ends.
SessionBrokeInLookups(t) ==
    /\ pc[t] = "await_fetch"
    /\ thread[t].pc \in {"returned", "raised"}
    /\ stop_calls = 0
    /\ connection = "dead"

\* C5: a cycle whose session breaks after the entity list was obtained, so that
\* the group lookups fail, counts as failed: the snapshot and last_update stay
\* as they were when the cycle began, and the session is dropped.
C5_BrokenSessionFailsCycle ==
    [][\A t \in Tasks :
          (CycleEnds(t) /\ SessionBrokeInLookups(t))
          => /\ thread[t].pc = "raised"
             /\ authorized_ips' = cycle_start[t].ips
             /\ last_update' = cycle_start[t].lu
             /\ connection' = None]_vars

\* A cycle that began with a published, non-empty snapshot is about to end in
\* success on a broken session, and what it publishes is the empty snapshot.
C5_Witness ==
    \E t \in Tasks :
       /\ SessionBrokeInLookups(t)
       /\ thread[t].pc = "returned"
       /\ cycle_start[t].ips # EmptyDict
       /\ cycle_start[t].lu > 0
       /\ thread[t].authorized_clients = EmptyDict

\* C6: a call of update_authorized_users that finds a cycle in flight waits for
\* it and returns when it is over, with no fetch of its own: from the wait for
\* the lock it goes nowhere but back to its caller.
C6_WaiterRunsNoFetch ==
    [][\A r \in Refreshers :
          pc[r] = "wait_lock" => pc'[r] \in {"wait_lock", "idle"}]_vars

\* C6, as the code has it: the call waits until the lock is free, then runs a
\* refresh cycle of its own, with its own fetch from the provider, and returns
\* to its caller only when that fetch has ended.
C6_WaiterRunsOwnCycle ==
    [][\A r \in Refreshers :
          /\ (pc[r] = "wait_lock" /\ pc'[r] # "wait_lock")
             => /\ update_lock = NoTask
                /\ update_lock' = r
                /\ pc'[r] = "await_fetch"
                /\ thread'[r].pc = "check_conn"
          /\ (pc[r] = "await_fetch" /\ pc'[r] # "await_fetch")
             => /\ thread[r].pc \in {"returned", "raised"}
                /\ pc'[r] = "idle"
                /\ update_lock' = NoTask]_vars

\* A call that had to wait for the lock is now listing the clients itself.
C6_Witness ==
    \E r \in Refreshers :
       /\ cycle_start[r].active
       /\ cycle_start[r].waited
       /\ pc[r] = "await_fetch"
       /\ update_lock = r
       /\ thread[r].pc = "list"

\* stop() was called and has returned.
StopReturned == stop_calls > 0 /\ stop_pc = "idle"

\* The periodic task was cancelled by stop(): what its thread still does is the
\* fetch of the cycle that was in flight then.
PeriodicTaskCancelled == pc[PeriodicTask] = "done"

\* C7: once stop() has returned, no provider call of the cancelled cycle is
\* still executing, the session is closed, and the cancelled cycle does not
\* open it again.
C7_StopLeavesNoFetchBehind ==
    [][/\ (StopReturned /\ PeriodicTaskCancelled) => ~FetchRunning(PeriodicTask)
       /\ (~StopReturned /\ StopReturned') => connection' = None
       /\ (StopReturned /\ PeriodicTaskCancelled /\ thread'[PeriodicTask] # thread[PeriodicTask])
          => connection' = connection]_vars

\* stop() has returned and the fetch of the cancelled cycle has opened a new
\* session, on which it is about to log in.
C7_Witness ==
    /\ StopReturned
    /\ pc[PeriodicTask] = "done"
    /\ thread[PeriodicTask].pc = "login"
    /\ connection = "open"

\* The fetch of task t takes the step from the check of line 90.
LeavesConnectionCheck(t) == thread[t].pc = "check_conn" /\ thread'[t].pc # "check_conn"

\* What C8 says of one step: a cycle that ends in failure ends without a
\* session, a cycle that ends in success ends with one, the session is left
\* alone while no fetch runs, and the next fetch calls connect() after a failure
\* and goes straight to the list after a success.
SessionDropAndReconnect ==
    /\ \A t \in Tasks :
          /\ (CycleEnds(t) /\ FetchFailed(t)) => connection' = None
          /\ (CycleEnds(t) /\ FetchSucceeded(t)) => connection' # None
          /\ (LeavesConnectionCheck(t) /\ last_outcome = "failure")
             => thread'[t].pc = "connect"
          /\ (LeavesConnectionCheck(t) /\ last_outcome = "success")
             => thread'[t].pc = "list"
    /\ (\A t \in Tasks : ~FetchRunning(t)) => connection' = connection

\* C8: whenever a cycle ends in failure the connection is None and the next
\* cycle calls connect(); whenever a cycle ends in success the session is kept
\* and the next cycle fetches on it without connect().
C8_SessionDropAndReconnect == [][SessionDropAndReconnect]_vars

\* C8, as the code has it: the same, as long as stop() has not been called.
C8_SessionDropAndReconnectUntilStop ==
    [][stop_calls = 0 => SessionDropAndReconnect]_vars

\* After a failed cycle, and with no call of stop(), the next fetch is in
\* connect().
C8_Witness ==
    /\ stop_calls = 0
    /\ last_outcome = "failure"
    /\ \E t \in Tasks : thread[t].pc = "connect"

\* The periodic task begins a refresh: its fetch is handed to the executor.
PeriodicAttempt ==
    /\ pc[PeriodicTask] = "await_fetch"
    /\ thread[PeriodicTask].pc = "check_conn"

\* C9: with no call of stop(), the periodic task never ends, whatever number
\* of its cycles failed; after a failed cycle, and again and again for ever,
\* it attempts another refresh.
C9_PeriodicTaskSurvivesFailures ==
    /\ [](pc[PeriodicTask] # "done")
    /\ (FetchFailed(PeriodicTask) ~> PeriodicAttempt)
    /\ []<>PeriodicAttempt

\* After a failed cycle the periodic task is at it again: its fetch is in
\* connect().
C9_Witness ==
    /\ last_outcome = "failure"
    /\ last_update > 0
    /\ pc[PeriodicTask] = "await_fetch"
    /\ thread[PeriodicTask].pc = "connect"

\* The places in the roster of the clients that are authorized by what the
\* server holds: a regular client with an address, a database id and a server
\* group whose id is, as a string, one of the required ids.
AuthorizedInRoster(roster) ==
    {k \in 1..Len(roster) :
        /\ roster[k].client_type = "0"
        /\ EntityAuthorized(roster[k],
                            Looked(ServerGroupsOf(roster[k].client_database_id)),
                            config.required_server_groups)}

\* The authorized subset of a roster, as a snapshot: for each address the entry
\* of the last authorized client that has it.
AuthorizedSubset(roster) ==
    [ip \in {roster[k].connection_client_ip : k \in AuthorizedInRoster(roster)} |->
        LET last == CHOOSE k \in AuthorizedInRoster(roster) :
                       /\ roster[k].connection_client_ip = ip
                       /\ \A j \in AuthorizedInRoster(roster) :
                             roster[j].connection_client_ip = ip => j <= k
        IN  ClientEntry(roster[last], ServerGroupsOf(roster[last].client_database_id))]

\* This step ends a cycle in success and publishes the authorized subset of
\* the roster the server gave to that cycle.
PublishesAuthorizedSubset ==
    \E t \in Tasks : \E roster \in Rosters :
       /\ CycleEnds(t)
       /\ FetchSucceeded(t)
       /\ thread[t].clients = NonQueryClients(roster)
       /\ authorized_ips' = AuthorizedSubset(roster)
       /\ last_update' > 0

\* C10: if from some point on the server accepts connections and answers every
\* call, and stop() is not called, then from then on, again and again, a
\* refresh cycle succeeds and publishes the authorized subset of the roster of
\* that cycle.
C10_RecoveryPublishesRoster ==
    <>[]providerUp => []<><<PublishesAuthorizedSubset>>_vars

\* The server is up and the last cycle, a success, has published the
\* authorized subset of a roster.
C10_Witness ==
    /\ providerUp
    /\ last_outcome = "success"
    /\ connection = "open"
    /\ \E roster \in Rosters :
          /\ AuthorizedSubset(roster) # EmptyDict
          /\ authorized_ips = AuthorizedSubset(roster)

\* This step ends a refresh cycle in success.
SuccessfulPublication == \E t \in Tasks : CycleEnds(t) /\ FetchSucceeded(t)

\* C11: as long as no refresh cycle succeeds, every ip of the published
\* snapshot stays authorized and keeps its entry, through failed cycles without
\* number; the answer of is_authorized owes nothing to last_update.
C11_SnapshotOutlivesFailedCycles ==
    [][/\ ~SuccessfulPublication
          => \A ip \in DOMAIN authorized_ips :
                /\ ip \in DOMAIN authorized_ips'
                /\ get_authorized_user_info(ip, authorized_ips')
                     = get_authorized_user_info(ip, authorized_ips)
       /\ \A t \in Tasks :
             (CycleEnds(t) /\ FetchFailed(t))
             => \A ip \in DOMAIN authorized_ips :
                   is_authorized(ip, authorized_ips', config'.authorized_subnets)]_vars

\* A second cycle in a row is about to end in failure, and the snapshot
\* published before them is still there.
C11_Witness ==
    /\ last_outcome = "failure"
    /\ authorized_ips # EmptyDict
    /\ \E t \in Tasks :
          /\ FetchFailed(t)
          /\ cycle_start[t].ips = authorized_ips
          /\ \A ip \in DOMAIN authorized_ips :
                is_authorized(ip, authorized_ips, <<>>)

\* C12: when the refresh of start() fails, start() completes all the same, the
\* periodic task is created, and the snapshot is as it was: empty, when no
\* refresh has succeeded yet.
C12_StartSurvivesFailedRefresh ==
    [][(CycleEnds(StartTask) /\ FetchFailed(StartTask))
       => /\ pc'[StartTask] = "done"
          /\ background_task' = PeriodicTask
          /\ pc'[PeriodicTask] = "sleeping"
          /\ authorized_ips' = authorized_ips
          /\ (last_update = 0 => authorized_ips' = EmptyDict)]_vars

\* start() is over after a failed refresh: the periodic task sleeps, and the
\* snapshot is empty.
C12_Witness ==
    /\ pc[StartTask] = "done"
    /\ last_outcome = "failure"
    /\ last_update = 0
    /\ authorized_ips = EmptyDict
    /\ background_task = PeriodicTask
    /\ pc[PeriodicTask] = "sleeping"
    /\ stop_calls = 0

\* stop() can take its next step: the cancelled task is woken, or the
\* disconnect goes on; and stop() can be called whenever no call is under way.
StopCanProceed ==
    /\ (stop_pc = "idle" /\ stop_calls < MaxStopCalls) => ENABLED StopCall
    /\ stop_pc = "await_task" => ENABLED PeriodicCancelled
    /\ stop_pc = "disc_check" => ENABLED StopDisconnectCheck
    /\ stop_pc = "disc_quit" => ENABLED StopDisconnectQuit
    /\ stop_pc = "disc_clear" => ENABLED StopDisconnectClear

\* C13: stop() can be called in every state and runs to its end, nothing in it
\* raises; when it returns the periodic task is not running and the connection
\* is None; a task it cancelled stays ended.
C13_StopIsSafe ==
    /\ []StopCanProceed
    /\ [][/\ (~StopReturned /\ StopReturned')
             => /\ pc'[PeriodicTask] \in {"none", "done"}
                /\ connection' = None
          /\ pc[PeriodicTask] = "done" => pc'[PeriodicTask] = "done"]_vars

\* stop() has returned for the second time; the first call had cancelled the
\* periodic task.
C13_Witness ==
    /\ stop_calls = 2
    /\ stop_pc = "idle"
    /\ pc[PeriodicTask] = "done"
    /\ connection = None
    /\ last_update > 0

\* C14: the snapshot and last_update change in no step but the one that ends a
\* cycle in success; that step stores the whole dict the fetch returned and the
\* time of the store together.  So the snapshot is the empty dict of the start
\* or the complete result of one cycle.
C14_AtomicPublication ==
    /\ [](last_update = 0 => authorized_ips = EmptyDict)
    /\ [][/\ (authorized_ips' # authorized_ips \/ last_update' # last_update)
             => SuccessfulPublication
          /\ \A t \in Tasks :
                (CycleEnds(t) /\ FetchSucceeded(t))
                => /\ authorized_ips' = thread[t].authorized_clients
                   /\ last_update' \in TimeReads(last_update)]_vars

\* A cycle is about to replace a published snapshot by a result that lacks
\* one of its keys and brings a new one.
C14_Witness ==
    /\ last_update > 0
    /\ \E t \in Tasks :
          /\ FetchSucceeded(t)
          /\ DOMAIN authorized_ips \ DOMAIN thread[t].authorized_clients # {}
          /\ DOMAIN thread[t].authorized_clients \ DOMAIN authorized_ips # {}

\* This step is the return of a call of the read operation op.
ReadReturns(op) == read_return' # read_return /\ read_return'.op = op

\* C15: in every state in which the event loop is free, each of the four read
\* operations can run and return, for every ip string, also while a refresh
\* cycle holds the lock and its fetch is with the provider; a read does not
\* take the lock nor queue for it.
C15_ReadsNeverBlocked ==
    /\ [](EventLoopFree
          => /\ \A ip \in IPStrings :
                   \A result \in {is_authorized(ip, authorized_ips,
                                                 config.authorized_subnets)} :
                      result \in BOOLEAN /\ ENABLED IsAuthorizedReturns(ip, result)
             /\ \A ip \in IPStrings : ENABLED GetAuthorizedUserInfoCall(ip)
             /\ ENABLED GetAllAuthorizedIpsCall
             /\ ENABLED GetCacheAgeCall)
    /\ [][read_return' # read_return
          => /\ update_lock' = update_lock
             /\ lock_waiters' = lock_waiters
             /\ read_return'.during_refresh = RefreshInFlight]_vars

\* A read has returned during the refresh cycle that still holds the lock, its
\* fetch being in connect().
C15_Witness ==
    /\ read_return.op = "is_authorized"
    /\ read_return.during_refresh
    /\ update_lock # NoTask
    /\ cycle_start[update_lock].active
    /\ thread[update_lock].pc = "connect"

\* C16: a read operation changes nothing but its return value: not the
\* snapshot, not last_update, not the lock or its queue, not the session; and
\* no fetch takes a step in it.
C16_ReadsArePure ==
    [][read_return' # read_return
       => UNCHANGED <<config, authorized_ips, last_update, connection, update_lock,
                      lock_waiters, background_task, cancel_requested, pc, thread,
                      stop_pc, stop_calls>>]_vars

\* A read has returned the list of the ips of a published snapshot, and the
\* session is still open.
C16_Witness ==
    /\ read_return.op = "get_all_authorized_ips"
    /\ read_return.ips # {}
    /\ read_return.ips = DOMAIN authorized_ips
    /\ connection = "open"
    /\ last_update > 0

\* C17: get_authorized_user_info(ip) returns the entry of the snapshot for a
\* key and None for any other ip; for an ip that only a subnet authorizes
\* is_authorized is true and get_authorized_user_info gives None.
C17_UserInfoIsSnapshotEntry ==
    [][ReadReturns("get_authorized_user_info")
       => LET ip   == read_return'.ip
              info == read_return'.info
          IN  /\ ip \in DOMAIN authorized_ips
                 => (~info.none /\ info.value = authorized_ips[ip])
              /\ ip \notin DOMAIN authorized_ips => info.none
              /\ (InSomeConfiguredSubnet(ip) /\ ip \notin DOMAIN authorized_ips)
                 => /\ is_authorized(ip, authorized_ips, config.authorized_subnets)
                    /\ info.none]_vars

\* get_authorized_user_info has answered None for an ip that a subnet
\* authorizes and the published snapshot does not hold.
C17_Witness ==
    /\ read_return.op = "get_authorized_user_info"
    /\ read_return.info.none
    /\ authorized_ips # EmptyDict
    /\ read_return.ip \notin DOMAIN authorized_ips
    /\ InSomeConfiguredSubnet(read_return.ip)
    /\ is_authorized(read_return.ip, authorized_ips, config.authorized_subnets)

\* C18: get_all_authorized_ips() returns the keys of the snapshot and nothing
\* else: no ip that only a subnet authorizes, though is_authorized is true of
\* it.
C18_AllIpsAreSnapshotKeys ==
    [][ReadReturns("get_all_authorized_ips")
       => /\ read_return'.ips = DOMAIN authorized_ips
          /\ \A ip \in IPStrings :
                (InSomeConfiguredSubnet(ip) /\ ip \notin DOMAIN authorized_ips)
                => /\ ip \notin read_return'.ips
                   /\ is_authorized(ip, authorized_ips, config.authorized_subnets)]_vars

\* The list returned is the key set of a published snapshot, and an ip that is
\* authorized is not in it.
C18_Witness ==
    /\ read_return.op = "get_all_authorized_ips"
    /\ read_return.ips # {}
    /\ read_return.ips = DOMAIN authorized_ips
    /\ \E ip \in IPStrings :
          /\ is_authorized(ip, authorized_ips, config.authorized_subnets)
          /\ ip \notin read_return.ips

\* C19: last_update is 0 at the start, changes only in the step that ends a
\* cycle in success, and never decreases; get_cache_age() returns the time it
\* reads minus last_update, which is not negative.
C19_LastUpdateMonotone ==
    /\ last_update = 0
    /\ [][/\ last_update' # last_update => SuccessfulPublication
          /\ last_update' >= last_update
          /\ ReadReturns("get_cache_age")
             => /\ read_return'.age = read_return'.time - last_update
                /\ read_return'.age >= 0]_vars

\* After a publication and the cancellation of the periodic task by stop(),
\* get_cache_age has returned an age above 0.
C19_Witness ==
    /\ read_return.op = "get_cache_age"
    /\ read_return.age > 0
    /\ last_update > 0
    /\ read_return.age = read_return.time - last_update
    /\ pc[PeriodicTask] = "done"

\* C20: is_authorized returns, and returns false, for every ip string that
\* does not parse as an address and is not a key of the snapshot, with or
\* without configured subnets.
C20_MalformedIpIsNotAuthorized ==
    /\ [](\A ip \in IPStrings :
             (EventLoopFree /\ ~ip_address(ip).ok) => ENABLED IsAuthorizedCall(ip))
    /\ [][(/\ ReadReturns("is_authorized")
           /\ ~ip_address(read_return'.ip).ok
           /\ read_return'.ip \notin DOMAIN authorized_ips)
          => read_return'.authorized = FALSE]_vars

\* is_authorized has answered false for a string that is no address, under a
\* configuration with subnets.
C20_Witness ==
    /\ read_return.op = "is_authorized"
    /\ ~ip_address(read_return.ip).ok
    /\ read_return.authorized = FALSE
    /\ config.authorized_subnets # <<>>
    /\ authorized_ips # EmptyDict

\* C21: GET /auth answers 503 when there is no service instance; with one it
\* answers 200 if and only if is_authorized(client_ip) is true, and 403
\* otherwise; on 200 the user is the nickname of the snapshot entry of
\* client_ip, or "localuser" when client_ip is no snapshot key.
C21_ForwardAuthAnswers ==
    [][ReadReturns("forward_auth")
       => LET response  == read_return'.response
              client_ip == ForwardAuthClientIp(read_return'.forwarded_for, read_return'.host)
          IN  IF auth_service = None THEN response.status_code = 503
              ELSE /\ response.status_code = 200
                      <=> is_authorized(client_ip, authorized_ips, config.authorized_subnets)
                   /\ response.status_code # 200 => response.status_code = 403
                   /\ response.status_code = 200
                      => response.user = IF client_ip \in DOMAIN authorized_ips
                                         THEN authorized_ips[client_ip].nickname
                                         ELSE "localuser"]_vars

\* GET /auth has been answered 500 for a client whose ip is a key of the
\* published snapshot: the nickname of its entry does not encode as a header.
C21_Witness ==
    /\ read_return.op = "forward_auth"
    /\ read_return.response.status_code = 500
    /\ LET client_ip == ForwardAuthClientIp(read_return.forwarded_for, read_return.host)
       IN  /\ client_ip \in DOMAIN authorized_ips
           /\ authorized_ips[client_ip].nickname = "Grace<U+2605>"

\* What the claim of the admission webhook says of the answer to one request.
OmeAnswerAsClaimed(request, response) ==
    IF request.status = "closing"
    THEN response.body = EmptyDict /\ response.asked = None
    ELSE LET client_ip == IF request.real_ip # None /\ request.real_ip # ""
                          THEN request.real_ip ELSE request.address
             allowed   == is_authorized(client_ip, authorized_ips, config.authorized_subnets)
         IN  /\ response.asked = client_ip
             /\ response.body.allowed = allowed
             /\ allowed => response.body.lifetime = PyInt(0)
             /\ ~allowed => response.body.reason = "IP address not authorized"

LookupFailed(fetch, k) ==
    /\ fetch.lookups[k].looked
    /\ fetch.lookups[k].groups # ServerGroupsOf(fetch.clients[k].client_database_id)

\* The group lookup of client k of the fetch was made and answered.
LookupAnswered(fetch, k) ==
    /\ fetch.lookups[k].looked
    /\ fetch.lookups[k].groups = ServerGroupsOf(fetch.clients[k].client_database_id)

HasFailedLookup(fetch) == \E k \in 1..Len(fetch.lookups) : LookupFailed(fetch, k)

\* This step is a group lookup of the fetch of task t that fails.
LookupFails(t) ==
    /\ thread[t].pc = "loop"
    /\ Len(thread'[t].lookups) = Len(thread[t].lookups) + 1
    /\ LookupFailed(thread'[t], Len(thread'[t].lookups))

\* C23: a group lookup that fails is not fatal to the cycle.  The step of the
\* failed lookup notes no groups for the entity, adds nothing to the dict and
\* goes on to the next entity or to the return, never to the error handler;
\* a fetch with a failed lookup stays on its way to the return; when its
\* cycle ends, it ends in success and publishes a snapshot that holds every
\* entity whose lookup was answered with a required group, and holds the
\* entity of a failed lookup never; and such a cycle does end.
C23_LookupFailureIsNotFatal ==
    /\ [][\A t \in Tasks :
             LookupFails(t)
             => /\ thread'[t].lookups[Len(thread'[t].lookups)].groups = <<>>
                /\ thread'[t].authorized_clients = thread[t].authorized_clients
                /\ thread'[t].pc \in {"loop", "returned"}]_vars
    /\ [](\A t \in Tasks :
             HasFailedLookup(thread[t]) => thread[t].pc \in {"loop", "returned"})
    /\ [][\A t \in Tasks :
             (CycleEnds(t) /\ HasFailedLookup(thread[t]))
             => LET fetch == thread[t]
                IN  /\ FetchSucceeded(t)
                    /\ Len(fetch.lookups) = Len(fetch.clients)
                    /\ last_outcome' = "success"
                    /\ last_update' >= last_update
                    /\ \A k \in 1..Len(fetch.clients) :
                          LET client == fetch.clients[k]
                              ip     == client.connection_client_ip
                          IN  /\ ( /\ LookupAnswered(fetch, k)
                                   /\ HasRequiredGroup(fetch.lookups[k].groups,
                                                       config.required_server_groups) )
                                 => ip \in DOMAIN authorized_ips'
                              /\ LookupFailed(fetch, k)
                                 => \/ ip \notin DOMAIN authorized_ips'
                                    \/ authorized_ips'[ip].client_id # client.clid]_vars
    /\ \A t \in Tasks : HasFailedLookup(thread[t]) ~> (thread[t] = IdleThread)

\* A fetch is about to return after the lookup of Alice failed on a session
\* that is still good, and the lookup of Erin, of the same address, was
\* answered: the dict holds Erin.
C23_Witness ==
    \E t \in Tasks :
       /\ pc[t] = "await_fetch"
       /\ thread[t].pc = "returned"
       /\ connection = "open"
       /\ \E k \in 1..Len(thread[t].clients) :
             LookupFailed(thread[t], k) /\ thread[t].clients[k] = Alice
       /\ "10.0.0.5" \in DOMAIN thread[t].authorized_clients
       /\ thread[t].authorized_clients["10.0.0.5"].client_db_id = Erin.client_database_id

\* The list of the fetch has an entity at the address ip that is authorized on
\* the server: it has a database id, and a required group among its groups.
ListedAuthorizedAt(fetch, ip) ==
    \E k \in 1..Len(fetch.clients) :
       /\ fetch.clients[k].connection_client_ip = ip
       /\ Truthy(fetch.clients[k].client_database_id)
       /\ HasRequiredGroup(ServerGroupsOf(fetch.clients[k].client_database_id),
                           config.required_server_groups)

\* C24: revocation on refresh.  The snapshot a successful cycle publishes is
\* built from the list of that cycle alone: each entry is the entry of an
\* entity of the list that its lookup found authorized; and an ip that was a
\* key, and at which the list has no authorized entity, is no key any more,
\* and is_authorized is true of it only if a configured subnet holds it.
C24_RevocationOnRefresh ==
    [][\A t \in Tasks :
          (CycleEnds(t) /\ FetchSucceeded(t))
          => LET fetch == thread[t]
             IN  /\ \A ip \in DOMAIN authorized_ips' :
                       \E k \in AuthorizedEntities(fetch) :
                          /\ fetch.clients[k].connection_client_ip = ip
                          /\ authorized_ips'[ip]
                               = ClientEntry(fetch.clients[k], fetch.lookups[k].groups)
                 /\ \A ip \in DOMAIN authorized_ips :
                       ~ListedAuthorizedAt(fetch, ip)
                       => /\ ip \notin DOMAIN authorized_ips'
                          /\ is_authorized(ip, authorized_ips', config.authorized_subnets)
                             <=> InSomeConfiguredSubnet(ip)]_vars

\* With no subnet configured, is_authorized has answered true for an ip, and
\* a later cycle, a success on a good session, has published a snapshot
\* without it: is_authorized is false of the ip now.
C24_Witness ==
    /\ config.authorized_subnets = <<>>
    /\ read_return.op = "is_authorized"
    /\ read_return.authorized
    /\ last_outcome = "success"
    /\ connection = "open"
    /\ authorized_ips # EmptyDict
    /\ read_return.ip \notin DOMAIN authorized_ips
    /\ ~is_authorized(read_return.ip, authorized_ips, config.authorized_subnets)

\* C25 as stated: a tick of the scheduler that fires while a manual refresh
\* holds the lock is skipped: from its wait for the lock the periodic task
\* goes back to its sleep (or ends, cancelled), and runs no cycle of its own.
C25_WaitingTickIsSkipped ==
    [][pc[PeriodicTask] = "wait_lock"
       => pc'[PeriodicTask] \in {"wait_lock", "sleeping", "done"}]_vars

\* C25, as the code has it: a tick that fires while a manual refresh holds the
\* lock queues for the lock; it leaves the queue only cancelled by stop(), or
\* by taking the free lock and starting a refresh cycle of its own, with its
\* own fetch, after which it sleeps again.
C25_WaitingTickRunsOwnCycle ==
    /\ [](pc[PeriodicTask] = "wait_lock"
          => /\ PeriodicTask \in Range(lock_waiters)
             /\ update_lock \in Refreshers \cup {NoTask})
    /\ [][/\ (pc[PeriodicTask] = "wait_lock" /\ pc'[PeriodicTask] # "wait_lock")
             => \/ cancel_requested /\ pc'[PeriodicTask] = "done"
                \/ /\ update_lock = NoTask
                   /\ update_lock' = PeriodicTask
                   /\ pc'[PeriodicTask] = "await_fetch"
                   /\ thread'[PeriodicTask].pc = "check_conn"
          /\ (pc[PeriodicTask] = "await_fetch" /\ pc'[PeriodicTask] = "sleeping")
             => thread[PeriodicTask].pc \in {"returned", "raised"}]_vars

\* The manual refresh is over, and the tick that waited for it holds the lock
\* and is listing the clients itself.
C25_Witness ==
    /\ cycle_start[PeriodicTask].active
    /\ cycle_start[PeriodicTask].waited
    /\ \A r \in Refreshers : pc[r] = "idle"
    /\ last_outcome # "none"
    /\ pc[PeriodicTask] = "await_fetch"
    /\ update_lock = PeriodicTask
    /\ thread[PeriodicTask].pc = "list"

\* refresh_auth, api/auth.py lines 137-141: the answer it builds when
\* update_authorized_users has returned, in the same step of the event loop;
\* time is what time.time() gives get_cache_age.
refresh_auth_response(time) ==
    [status |-> "refreshed",
     authorized_users_count |-> Cardinality(DOMAIN authorized_ips),
     cache_age_seconds |-> get_cache_age(time, last_update)]

\* C26: a failed refresh cycle is not raised to the caller of
\* update_authorized_users.  When the awaited fetch has raised, the caller
\* goes on as after a success (start() is over, the periodic task sleeps
\* again, refresh_auth answers) unless it is the periodic task and stop() has
\* cancelled it; the failure is logged, the lock released, the snapshot kept;
\* and refresh_auth answers "refreshed" with the count of the snapshot that
\* was published when its cycle began.
C26_FailureIsNotRaised ==
    [][\A t \in Tasks :
          (FetchFailed(t) /\ pc'[t] # pc[t])
          => \/ t = PeriodicTask /\ cancel_requested /\ pc'[t] = "done"
             \/ /\ CycleEnds(t)
                /\ pc'[t] = (IF t = StartTask THEN "done"
                             ELSE IF t = PeriodicTask THEN "sleeping" ELSE "idle")
                /\ update_lock' = NoTask
                /\ last_outcome' = "failure"
                /\ authorized_ips' = cycle_start[t].ips
                /\ t \in Refreshers
                   => \A time \in TimeReads(last_update') :
                         /\ refresh_auth_response(time)'.status = "refreshed"
                         /\ refresh_auth_response(time)'.authorized_users_count
                              = Cardinality(DOMAIN cycle_start[t].ips)]_vars

\* The fetch of a refresh_auth call has raised while a snapshot with entries
\* is published: the call is about to return and to count those entries.
C26_Witness ==
    \E r \in Refreshers :
       /\ FetchFailed(r)
       /\ EventLoopFree
       /\ cycle_start[r].ips # EmptyDict
       /\ authorized_ips = cycle_start[r].ips
       /\ \E time \in TimeReads(last_update) :
             refresh_auth_response(time).authorized_users_count >= 1

\* C27: the refresh lock is held exactly while a refresh cycle is executing.
\* A task holds the lock if and only if it is inside the body of
\* update_authorized_users, awaiting its fetch, and the fetch it awaits was
\* started; every way out of the body (success, failure, the cancellation by
\* stop()) leaves the lock free in the same step; and a call that waits for
\* the lock gets it in the end, unless it is the periodic task and stop()
\* cancels it in its wait.
C27_LockHeldWhileCycleRuns ==
    /\ [](\A t \in Tasks : update_lock = t <=> pc[t] = "await_fetch")
    /\ [](update_lock # NoTask
          => /\ update_lock \in Tasks
             /\ thread[update_lock].pc # "idle"
             /\ update_lock \notin Range(lock_waiters))
    /\ [][\A t \in Tasks :
             (pc[t] = "await_fetch" /\ pc'[t] # "await_fetch") => update_lock' = NoTask]_vars
    /\ \A t \in Refreshers \cup {PeriodicTask} :
          pc[t] = "wait_lock" ~> (update_lock = t \/ (t = PeriodicTask /\ pc[t] = "done"))

\* After a failed refresh and a call of stop() that cancelled the cycle of the
\* periodic task, whose fetch still runs, the lock is free, and a refresh_auth
\* call has taken it.
C27_Witness ==
    /\ last_outcome = "failure"
    /\ StopReturned
    /\ pc[PeriodicTask] = "done"
    /\ FetchRunning(PeriodicTask)
    /\ \E r \in Refreshers :
          /\ update_lock = r
          /\ cycle_start[r].waited

\* stop() is inside ts_client.disconnect(), on the event loop.
StopInDisconnect == stop_pc \in {"disc_check", "disc_quit", "disc_clear"}

\* C28: the session is used and changed only by the refresh cycle that holds
\* the lock: a fetch runs in an executor thread only for the task that holds
\* the lock, and while stop() is inside disconnect() no fetch is running in
\* any executor thread.
C28_SessionUsedByLockHolderOnly ==
    /\ \A t \in Tasks : FetchRunning(t) => update_lock = t
    /\ StopInDisconnect => \A t \in Tasks : ~FetchRunning(t)

\* stop() is about to call quit() on the session while the fetch of a
\* refresh_auth call, which holds the lock, is in its loop of group lookups on
\* the same session.
C28_Witness ==
    /\ stop_pc = "disc_quit"
    /\ connection = "open"
    /\ pc[StartTask] = "done"
    /\ \E r \in Refreshers :
          /\ update_lock = r
          /\ pc[r] = "await_fetch"
          /\ thread[r].pc = "loop"

\* This step changes what the readers are answered from.
Publishes == authorized_ips' # authorized_ips \/ last_update' # last_update

\* C29 as stated, for clients that call refresh_auth only before stop(): once
\* stop() has returned and the cycle of the periodic task is cancelled, the
\* snapshot and last_update never change again.
C29_NothingPublishedAfterStop ==
    [][(StopReturned /\ PeriodicTaskCancelled) => ~Publishes]_vars

\* C29, amended: a cycle cancelled by stop() never publishes, neither at its
\* cancellation nor when its fetch goes on and ends in the executor thread;
\* once stop() has returned, the periodic task is cancelled and no
\* refresh_auth call is in flight, the snapshot and last_update never change
\* again; and what changes them after stop() has returned is the end of a
\* successful cycle of a refresh_auth call that was in flight.
C29_CancelledCycleNeverPublishes ==
    [][/\ (pc[PeriodicTask] # "done" /\ pc'[PeriodicTask] = "done") => ~Publishes
       /\ (pc[PeriodicTask] = "done" /\ thread'[PeriodicTask] # thread[PeriodicTask])
          => ~Publishes
       /\ (StopReturned /\ PeriodicTaskCancelled /\ \A r \in Refreshers : pc[r] = "idle")
          => /\ ~Publishes
             /\ \A r \in Refreshers : pc'[r] = "idle"
       /\ (StopReturned /\ PeriodicTaskCancelled /\ Publishes)
          => \E r \in Refreshers : CycleEnds(r) /\ FetchSucceeded(r)]_vars

\* stop() has returned, no refresh_auth call is in flight, and the fetch of
\* the cancelled cycle, in its thread, has looked up its last client: it is
\* about to return a dict that is not the published snapshot.
C29_Witness ==
    /\ StopReturned
    /\ PeriodicTaskCancelled
    /\ \A r \in Refreshers : pc[r] = "idle"
    /\ thread[PeriodicTask].pc = "loop"
    /\ thread[PeriodicTask].i = Len(thread[PeriodicTask].clients)
    /\ thread[PeriodicTask].authorized_clients # EmptyDict
    /\ thread[PeriodicTask].authorized_clients # authorized_ips

\* The task t is in a refresh cycle or waits for the lock to begin one.
InUpdate(t) == pc[t] \in {"wait_lock", "await_fetch"}

\* C30: startup ordering.  The periodic task exists only when the initial
\* cycle of start() is over, and is created, asleep, by the step that ends
\* that cycle; the periodic task enters update_authorized_users only from its
\* sleep, and goes to sleep only when it is created and when its own cycle
\* has ended; so the fetch of the initial cycle and a fetch of the periodic
\* task never run together, and the periodic task has one cycle at a time,
\* held or queued.
C30_StartupOrdering ==
    /\ []((background_task # NoTask \/ pc[PeriodicTask] # "none")
          => /\ pc[StartTask] = "done"
             /\ thread[StartTask] = IdleThread
             /\ update_lock # StartTask)
    /\ [](FetchRunning(StartTask) => thread[PeriodicTask] = IdleThread)
    /\ [](/\ pc[PeriodicTask] = "wait_lock"
             => /\ update_lock # PeriodicTask
                /\ Len(SelectSeq(lock_waiters, LAMBDA w : w = PeriodicTask)) = 1
          /\ pc[PeriodicTask] # "wait_lock" => PeriodicTask \notin Range(lock_waiters))
    /\ [][/\ (pc[PeriodicTask] = "none" /\ pc'[PeriodicTask] # "none")
             => /\ CycleEnds(StartTask)
                /\ pc'[PeriodicTask] = "sleeping"
                /\ background_task' = PeriodicTask
          /\ (~InUpdate(PeriodicTask) /\ InUpdate(PeriodicTask)')
             => pc[PeriodicTask] = "sleeping"
          /\ (pc[PeriodicTask] # "sleeping" /\ pc'[PeriodicTask] = "sleeping")
             => \/ pc[PeriodicTask] = "none"
                \/ /\ pc[PeriodicTask] = "await_fetch"
                   /\ thread[PeriodicTask].pc \in {"returned", "raised"}
          /\ (pc[PeriodicTask] = "await_fetch" /\ pc'[PeriodicTask] # "await_fetch")
             => pc'[PeriodicTask] \in {"sleeping", "done"}]_vars

\* start() is over after an initial cycle that failed, and the periodic task,
\* after its sleep, is in a cycle of its own, connecting.
C30_Witness ==
    /\ pc[StartTask] = "done"
    /\ thread[StartTask] = IdleThread
    /\ background_task = PeriodicTask
    /\ authorized_ips = EmptyDict
    /\ last_update = 0
    /\ last_outcome = "failure"
    /\ pc[PeriodicTask] = "await_fetch"
    /\ update_lock = PeriodicTask
    /\ thread[PeriodicTask].pc = "connect"

\* C31: the display name of an authorized request is never empty: whenever
\* GET /auth is served for an ip that is_authorized accepts, the nickname the
\* handler uses is a non-empty string, and it is "localuser" when the ip has
\* no snapshot entry and when its entry carries no nickname.
C31_DisplayNameNeverEmpty ==
    [][(ReadReturns("forward_auth") /\ Truthy(auth_service))
       => LET client_ip == ForwardAuthClientIp(read_return'.forwarded_for, read_return'.host)
              nickname  == ForwardAuthNickname(client_ip)
          IN  is_authorized(client_ip, authorized_ips, config.authorized_subnets)
              => /\ Truthy(nickname)
                 /\ client_ip \notin DOMAIN authorized_ips => nickname = "localuser"
                 /\ (/\ client_ip \in DOMAIN authorized_ips
                     /\ ~Truthy(authorized_ips[client_ip].nickname))
                    => nickname = "localuser"]_vars

\* GET /auth was served for 10.0.0.5 while the snapshot entry of that ip, the
\* entry of Erin, carries no nickname: the name used was None, and the answer
\* was 500.
C31_Witness ==
    /\ read_return.op = "forward_auth"
    /\ ForwardAuthClientIp(read_return.forwarded_for, read_return.host) = "10.0.0.5"
    /\ "10.0.0.5" \in DOMAIN authorized_ips
    /\ authorized_ips["10.0.0.5"].client_db_id = Erin.client_database_id
    /\ authorized_ips["10.0.0.5"].nickname = None
    /\ ForwardAuthNickname("10.0.0.5") = None
    /\ read_return.response.status_code = 500

\* The answer of a handler, on the snapshot its call of is_authorized read:
\* the user info the handler then got for ip is the entry of ip in that same
\* snapshot, and None when ip is no key of it.
SameSnapshotInfo(ip, info) ==
    /\ ip \in DOMAIN authorized_ips => (~info.none /\ info.value = authorized_ips[ip])
    /\ ip \notin DOMAIN authorized_ips => info.none

\* C32: in forward_auth, check_auth, check_auth_by_ip and the admission
\* webhook the call of is_authorized and the call of get_authorized_user_info
\* that follows read the same snapshot.  The step that serves the request
\* publishes nothing, and no step that publishes serves a request; an ip that
\* is a key for the first call has its entry in the second: the check
\* endpoints return that entry, forward_auth and the webhook use its
\* nickname.
C32_HandlerReadsOneSnapshot ==
    [][/\ Publishes => read_return' = read_return
       /\ (read_return' # read_return /\ Truthy(auth_service))
          => LET answer == read_return'
                 authorized(ip) == is_authorized(ip, authorized_ips, config.authorized_subnets)
             IN  /\ ~Publishes
                 /\ answer.op \in {"check_auth", "check_auth_by_ip"}
                    => /\ answer.response.authorized = authorized(answer.ip)
                       /\ answer.response.authorized
                          => SameSnapshotInfo(answer.ip, answer.response.user_info)
                 /\ answer.op = "forward_auth"
                    => LET client_ip == ForwardAuthClientIp(answer.forwarded_for, answer.host)
                       IN  client_ip \in DOMAIN authorized_ips
                           => /\ answer.response.status_code \in {200, 500}
                              /\ answer.response.status_code = 200
                                 => answer.response.user = authorized_ips[client_ip].nickname
                              /\ answer.response.status_code = 500
                                 => ~EncodesLatin1(authorized_ips[client_ip].nickname)
                 /\ (answer.op = "ome_admission_webhook" /\ answer.status # "closing")
                    => LET client_ip == OmeClientIp(answer.real_ip, answer.address)
                       IN  client_ip \in DOMAIN authorized_ips
                           => /\ answer.response.body.allowed
                              /\ answer.response.logged = authorized_ips[client_ip].nickname]_vars

\* GET /check/10.0.0.6 was answered with the entry of the published snapshot
\* while a fetch that has returned a dict without 10.0.0.6 waits for the event
\* loop to publish it.
C32_Witness ==
    /\ read_return.op = "check_auth_by_ip"
    /\ read_return.ip = "10.0.0.6"
    /\ read_return.response.status_code = 200
    /\ read_return.response.authorized
    /\ "10.0.0.6" \in DOMAIN authorized_ips
    /\ ~read_return.response.user_info.none
    /\ read_return.response.user_info.value = authorized_ips["10.0.0.6"]
    /\ config.authorized_subnets = <<>>
    /\ \E t \in Tasks :
          /\ pc[t] = "await_fetch"
          /\ thread[t].pc = "returned"
          /\ "10.0.0.6" \notin DOMAIN thread[t].authorized_clients

\* The entities of the fetch, by their place in the list, that have the
\* address ip and that their lookup found authorized.
AuthorizedAt(fetch, ip) ==
    {k \in AuthorizedEntities(fetch) : fetch.clients[k].connection_client_ip = ip}

\* C33: snapshot keys are unique per address.  The snapshot a successful
\* cycle publishes is a dict: for every address of a listed entity it has no
\* entry when no entity of that address was found authorized, and otherwise
\* one entry, that of the last authorized entity of that address in list
\* order; and the iteration of the loop for an entity that is not authorized
\* leaves the dict as it is.
C33_LastAuthorizedEntityWins ==
    [][\A t \in Tasks :
          /\ (CycleEnds(t) /\ FetchSucceeded(t))
             => LET fetch == thread[t]
                IN  \A j \in 1..Len(fetch.clients) :
                       LET ip     == fetch.clients[j].connection_client_ip
                           places == AuthorizedAt(fetch, ip)
                           last   == CHOOSE k \in places : \A i \in places : i <= k
                       IN  IF places = {} THEN ip \notin DOMAIN authorized_ips'
                           ELSE /\ ip \in DOMAIN authorized_ips'
                                /\ authorized_ips'[ip]
                                     = ClientEntry(fetch.clients[last],
                                                   fetch.lookups[last].groups)
          /\ (/\ thread[t].pc = "loop"
              /\ Len(thread'[t].lookups) = Len(thread[t].lookups) + 1
              /\ LET k == Len(thread'[t].lookups)
                 IN  ~EntityAuthorized(thread[t].clients[k], thread'[t].lookups[k],
                                       config.required_server_groups))
             => thread'[t].authorized_clients = thread[t].authorized_clients]_vars

\* A fetch has returned after every lookup of the list Alice, Erin, Frank, who
\* share 10.0.0.5, was answered: its dict has one entry for the address, that
\* of Erin, the last authorized of the three; Frank, not authorized, came
\* after her.
C33_Witness ==
    \E t \in Tasks :
       /\ pc[t] = "await_fetch"
       /\ thread[t].pc = "returned"
       /\ thread[t].clients = <<Alice, Erin, Frank>>
       /\ \A k \in 1..3 : LookupAnswered(thread[t], k)
       /\ AuthorizedAt(thread[t], "10.0.0.5") = {1, 2}
       /\ DOMAIN thread[t].authorized_clients = {"10.0.0.5"}
       /\ thread[t].authorized_clients["10.0.0.5"]
            = ClientEntry(Erin, ServerGroupsOf(Erin.client_database_id))

\* A regular client, as opposed to a ServerQuery client.
IsRegularClient(client) == client.client_type = "0"

\* The regular clients of a roster, in its order.
RegularClients(roster) == SelectSeq(roster, IsRegularClient)

\* C34: query-type clients are never authorized.  The list a fetch works on
\* is a roster of the server without its entities whose client_type is not
\* "0", so that the authorization rule is applied to regular clients only;
\* and when a cycle publishes, the address of a query client of the roster is
\* a snapshot key only if an authorized regular client has that address, even
\* when the query client holds a required group.
C34_QueryClientsNeverAuthorized ==
    [][\A t \in Tasks :
          /\ (thread[t].pc = "list" /\ thread'[t].pc \in {"loop", "returned"})
             => /\ \E roster \in Rosters : thread'[t].clients = RegularClients(roster)
                /\ \A k \in 1..Len(thread'[t].clients) :
                      IsRegularClient(thread'[t].clients[k])
          /\ (CycleEnds(t) /\ FetchSucceeded(t))
             => \A roster \in Rosters :
                   thread[t].clients = RegularClients(roster)
                   => \A q \in 1..Len(roster) :
                         (/\ ~IsRegularClient(roster[q])
                          /\ roster[q].connection_client_ip \in DOMAIN authorized_ips')
                         => \E k \in AuthorizedEntities(thread[t]) :
                               /\ IsRegularClient(thread[t].clients[k])
                               /\ thread[t].clients[k].connection_client_ip
                                    = roster[q].connection_client_ip]_vars

\* A cycle has published the snapshot of the roster in which serveradmin, a
\* query client at 10.0.0.6, holds the required group 6: Alice is a key by that
\* same group, the address of serveradmin is none.
C34_Witness ==
    /\ last_update > 0
    /\ \E r \in Range(config.required_server_groups) :
          \E g \in Range(ServerGroupsOf(Query.client_database_id)) : str(g) = str(r)
    /\ ~IsRegularClient(Query)
    /\ \E t \in Tasks :
          /\ thread[t].pc = "returned"
          /\ thread[t].clients = RegularClients(<<Query, Alice, Erin, Frank>>)
          /\ authorized_ips = thread[t].authorized_clients
    /\ Alice.connection_client_ip \in DOMAIN authorized_ips
    /\ Query.connection_client_ip \notin DOMAIN authorized_ips

(***************************************************************************)
(* The subnet check alone, on every short list of subnet strings.          *)
(***************************************************************************)
\* The longest list of authorized subnets.
MaxSubnets == 3

\* The strings a configured subnet list is made of: one does not parse.
SubnetStrings == {"192.168.1.0/24", "10.0.0.6/31", "fd00::/8", "not-a-cidr"}

\* Every list of at most MaxSubnets subnet strings.
SubnetLists == UNION {[1..n -> SubnetStrings] : n \in 0..MaxSubnets}

\* The service as constructed, under any of these lists.
SubnetInit ==
    /\ config \in [required_server_groups : RequiredGroupConfigs,
                   authorized_subnets : SubnetLists]
    /\ authorized_ips = EmptyDict
    /\ last_update = 0
    /\ connection = None
    /\ update_lock = NoTask
    /\ lock_waiters = <<>>
    /\ background_task = NoTask
    /\ cancel_requested = FALSE
    /\ pc = [t \in Tasks |->
                IF t = StartTask THEN "init" ELSE IF t = PeriodicTask THEN "none" ELSE "idle"]
    /\ thread = [t \in Tasks |-> IdleThread]
    /\ stop_pc = "idle"
    /\ stop_calls = 0
    /\ providerUp = FALSE
    /\ cycle_start = [t \in Tasks |-> NoCycle]
    /\ last_outcome = "none"
    /\ read_return = NoRead

\* A call of _is_in_authorized_subnet(ip_address).
SubnetCheckCall(ip) ==
    /\ read_return' = [op |-> "_is_in_authorized_subnet", ip |-> ip,
                       result |-> is_in_authorized_subnet(ip, config.authorized_subnets)]
    /\ UNCHANGED <<config, authorized_ips, last_update, connection, update_lock,
                   lock_waiters, background_task, cancel_requested, pc, thread, stop_pc,
                   stop_calls, providerUp, cycle_start, last_outcome>>

SubnetNext == \E ip \in IPStrings : SubnetCheckCall(ip)

SubnetSpec == SubnetInit /\ [][SubnetNext]_vars

\* The list without its entries that do not parse as a network.
ParseableEntries(subnets) ==
    SelectSeq(subnets, LAMBDA subnet_string : ParseNetwork(subnet_string).ok)

\* C35: an unparseable subnet entry is skipped without aborting the
\* evaluation.  Whatever list is configured and whatever ip is asked, the
\* subnet check returns what it returns over the list without its
\* unparseable entries, wherever in the list they stand; over the empty list
\* it returns False.
C35_UnparseableSubnetSkipped ==
    read_return.op = "_is_in_authorized_subnet"
    => /\ read_return.result
            = is_in_authorized_subnet(read_return.ip,
                                      ParseableEntries(config.authorized_subnets))
       /\ config.authorized_subnets = <<>> => read_return.result = FALSE

\* The check has returned True for 10.0.0.6 over a list that has an
\* unparseable entry before and after the subnet that contains the address.
C35_Witness ==
    /\ read_return.op = "_is_in_authorized_subnet"
    /\ read_return.ip = "10.0.0.6"
    /\ read_return.result = TRUE
    /\ config.authorized_subnets = <<"not-a-cidr", "10.0.0.6/31", "not-a-cidr">>

(***************************************************************************)
(* The status endpoint, api/status.py.                                     *)
(***************************************************************************)
\* config.cache_ttl, at its default.
cache_ttl == 30

\* Mutant: the service is taken for connected once it holds a snapshot.
get_status_ByCacheState(time) ==
    IF auth_service = None THEN HttpError(503)
    ELSE LET is_connected == last_update > 0
         IN  [status_code            |-> IF is_connected THEN 200 ELSE 503,
              status                 |-> IF is_connected THEN "running" ELSE "degraded",
              authorized_users_count |-> Cardinality(DOMAIN authorized_ips),
              cache_age_seconds      |-> get_cache_age(time, last_update),
              cache_ttl_seconds      |-> cache_ttl]

\* get_status, with time what time.time() gives to get_cache_age: the status
\* code and the fields of StatusResponse (which has no teamspeak_connected).
get_status(time) ==
    IF auth_service = None THEN HttpError(503)
    ELSE LET is_connected == connection # None
         IN  [status_code            |-> IF is_connected THEN 200 ELSE 503,
              status                 |-> IF is_connected THEN "running" ELSE "degraded",
              authorized_users_count |-> Cardinality(DOMAIN authorized_ips),
              cache_age_seconds      |-> get_cache_age(time, last_update),
              cache_ttl_seconds      |-> cache_ttl]

\* GET /status is served.
GetStatusCall ==
    /\ \E time \in TimeReads(last_update) :
          read_return' = [op |-> "get_status", time |-> time, response |-> get_status(time)]
    /\ ReadFrame

\* The running service, with refresh_auth calls, and the status endpoint.
StatusNext ==
    \/ Start
    \/ \E t \in Refreshers : RefreshNow(t)
    \/ SleepDone
    \/ \E t \in Tasks : LockAcquired(t)
    \/ \E t \in Tasks : UpdateDone(t)
    \/ \E t \in Tasks : FetchCheckConnection(t)
    \/ \E t \in Tasks : Connect(t)
    \/ \E t \in Tasks : Login(t)
    \/ \E t \in Tasks : ListClients(t)
    \/ \E t \in Tasks : ProcessClient(t)
    \/ \E t \in Tasks : FetchDisconnectCheck(t)
    \/ \E t \in Tasks : FetchDisconnectQuit(t)
    \/ \E t \in Tasks : FetchDisconnectClear(t)
    \/ GetStatusCall

StatusSpec == Init /\ [][StatusNext]_vars

\* What GET /status answers now is 503 and "degraded" with no session, 200 and
\* "running" with one, and the count is the size of the snapshot.
StatusTellsSession ==
    \A time \in TimeReads(last_update) :
       LET response == get_status(time)
       IN  /\ IF connection = None
              THEN response.status_code = 503 /\ response.status = "degraded"
              ELSE response.status_code = 200 /\ response.status = "running"
           /\ response.authorized_users_count = Cardinality(DOMAIN authorized_ips)

\* C36: the status endpoint answers 503 with status "degraded" iff the
\* session is absent and 200 with status "running" otherwise, with
\* authorized_users_count the size of the current snapshot; hence, once
\* start() has returned, it reports degraded as long as no cycle has succeeded
\* (last_update is 0) and after every failed cycle until a later cycle
\* succeeds (the last cycle that ended has failed).
C36_DegradedUntilCycleSucceeds ==
    pc[StartTask] = "done"
    => /\ StatusTellsSession
       /\ (last_update = 0 \/ last_outcome = "failure")
          => \A time \in TimeReads(last_update) : get_status(time).status = "degraded"

\* C36, amended: with the service in place the status endpoint answers 503
\* with status "degraded" iff the session is absent and 200 with status
\* "running" otherwise, with authorized_users_count the size of the current
\* snapshot; as long as stop() was not called, a failed cycle leaves the
\* session absent, so that the endpoint reports degraded, and the session
\* stays absent until connect() of a later cycle opens one, from when on the
\* endpoint reports running.
C36_DegradedUntilSessionOpens ==
    /\ [](auth_service # None => StatusTellsSession)
    /\ [][(auth_service # None /\ stop_calls = 0)'
          => /\ \A t \in Tasks :
                   (CycleEnds(t) /\ FetchFailed(t))
                   => /\ connection' = None
                      /\ \A time \in TimeReads(last_update') :
                            get_status(time)'.status = "degraded"
             /\ (connection = None /\ connection' # None)
                => /\ \E t \in Tasks : thread[t].pc = "connect" /\ thread'[t].pc = "login"
                   /\ \A time \in TimeReads(last_update') :
                         get_status(time)'.status = "running"]_vars

\* After start() has returned with a failed initial cycle, the fetch of the
\* periodic task has opened a session and is logging in: GET /status was
\* answered 200 "running" with a count of 0, and no cycle has succeeded yet.
C36_Witness ==
    /\ pc[StartTask] = "done"
    /\ last_update = 0
    /\ last_outcome = "failure"
    /\ pc[PeriodicTask] = "await_fetch"
    /\ thread[PeriodicTask].pc = "login"
    /\ connection # None
    /\ read_return.op = "get_status"
    /\ read_return.response.status_code = 200
    /\ read_return.response.status = "running"
    /\ read_return.response.authorized_users_count = 0

\* The value of an X-Forwarded-For header, piece by piece: addresses, commas
\* and blanks.
HeaderPieces(forwarded_for) ==
    CASE forwarded_for = "10.0.0.5"                -> <<"10.0.0.5">>
      [] forwarded_for = "10.0.0.6, 10.1.2.3"      -> <<"10.0.0.6", ",", " ", "10.1.2.3">>
      [] forwarded_for = " 192.168.1.50 ,10.0.0.5" -> <<" ", "192.168.1.50", " ", ",", "10.0.0.5">>
      [] forwarded_for = "not-an-ip,10.0.0.5"      -> <<"not-an-ip", ",", "10.0.0.5">>
      [] OTHER                                     -> <<>>

\* The pieces before the first comma.
RECURSIVE FirstElement(_)
FirstElement(pieces) ==
    IF pieces = <<>> \/ Head(pieces) = "," THEN <<>>
    ELSE <<Head(pieces)>> \o FirstElement(Tail(pieces))

\* The pieces without the blanks at either end.
RECURSIVE WithoutSurroundingBlanks(_)
WithoutSurroundingBlanks(pieces) ==
    IF pieces = <<>> THEN <<>>
    ELSE IF Head(pieces) = " " THEN WithoutSurroundingBlanks(Tail(pieces))
    ELSE IF pieces[Len(pieces)] = " "
         THEN WithoutSurroundingBlanks(SubSeq(pieces, 1, Len(pieces) - 1))
    ELSE pieces

\* The ip the request is about: the first comma-separated element of the
\* header without its surrounding blanks, or the peer when there is no
\* header or an empty one.
CheckedIp(forwarded_for, host) ==
    IF forwarded_for = None \/ forwarded_for = "" THEN host
    ELSE LET pieces == WithoutSurroundingBlanks(FirstElement(HeaderPieces(forwarded_for)))
         IN  IF pieces = <<>> THEN "" ELSE pieces[1]

\* C37: the ip checked by the ForwardAuth endpoint is the first
\* comma-separated element of the X-Forwarded-For header, stripped of
\* surrounding whitespace, when that header is present and non-empty, and the
\* direct peer address otherwise; the decision depends on no other part of
\* the request: the answer is the one a request without the header gets from
\* a peer of that ip, and a 200 answer names that ip.
C37_FirstForwardedElementDecides ==
    \A forwarded_for \in ForwardedForHeaders, host \in ClientHosts :
       LET ip       == CheckedIp(forwarded_for, host)
           response == forward_auth(forwarded_for, host)
       IN  /\ response = forward_auth(None, ip)
           /\ auth_service # None
              => /\ response.status_code = 403
                    <=> ~is_authorized(ip, authorized_ips, config.authorized_subnets)
                 /\ response.status_code = 200 => response.ip = ip

\* With Alice in the snapshot at 10.0.0.5 and no authorized subnet, a request
\* of peer 10.0.0.5 whose header is " 192.168.1.50 ,10.0.0.5" was refused: the
\* first element, without its blanks, is not authorized, the peer and the
\* second element are.
C37_Witness ==
    /\ config.authorized_subnets = <<>>
    /\ "10.0.0.5" \in DOMAIN authorized_ips
    /\ read_return.op = "forward_auth"
    /\ read_return.forwarded_for = " 192.168.1.50 ,10.0.0.5"
    /\ read_return.host = "10.0.0.5"
    /\ read_return.response = HttpError(403)
    /\ forward_auth(None, "10.0.0.5").status_code # 403

=============================================================================
